---------------------------- MODULE Spec2Model ----------------------------
(***************************************************************************)
(* Model of the potency estimation engine of plaque_assay                  *)
(* (src/plaque_assay/stats.py, src/plaque_assay/utils.py), of its quality  *)
(* checks (sample.py, plate.py, failure.py, qc_criteria.py) and of the     *)
(* upload of its results (main.py, db_uploader.py; specification SpecDb),  *)
(* of concurrent uploads (SpecConcurrent), of the titration pipelines      *)
(* (SpecTitration) and of the failure report of experiment.py.             *)
(*                                                                         *)
(* The engine is a family of pure functions.  The state of the model is    *)
(* the call in hand: the function called (op), its arguments (args) and    *)
(* what it returned (ret).  Every Call action is one whole call, made from *)
(* the idle state; Return gives the result back and leaves the engine      *)
(* idle again (the engine keeps nothing between calls, spec section 5).    *)
(* A call that ends with an exception returns the object it was working    *)
(* on as it was at the raise, with the name of the exception in the field  *)
(* raised.                                                                 *)
(*                                                                         *)
(* Number representation                                                   *)
(*   - "Percentage Infected" values and curve samples are integers.        *)
(*   - A replicate mean is the pair <<sum, count>>; comparisons with a     *)
(*     threshold are made by cross-multiplication, so they are exact.      *)
(*   - A "Dilution" (a fraction such as 0.025) is an integer number of     *)
(*     1e-9 units (25000000).                                              *)
(*   - A point of the concentration axis used by the curve solver is its   *)
(*     decimal logarithm in units of 1e-5 decade; a point of the log       *)
(*     spaced grid is that logarithm multiplied by (GridN - 1), which      *)
(*     keeps np.logspace exact.                                            *)
(*   - None is the empty sequence and a present value v is <<v>>.          *)
(***************************************************************************)
EXTENDS Integers, Sequences, FiniteSets, TLC

VARIABLES op, args, ret

vars == <<op, args, ret>>

-----------------------------------------------------------------------------
(* Bounds of the model *)

\* largest number of replicates of one dilution level in a series
MaxReps == 2

\* longest sequence given to hampel and largest window half-width
MaxLen == 6

MaxK == 2

\* largest number of constant pieces of a sampled curve
MaxSegs == 3

-----------------------------------------------------------------------------
(* Generic helpers *)

None == <<>>

Some(v) == <<v>>

SeqsUpTo(S, n) == UNION {[1..m -> S] : m \in 0..n}

IsNonDecreasing(s) == \A i \in 1..(Len(s) - 1) : s[i] <= s[i + 1]

RECURSIVE FlattenSeqs(_)
FlattenSeqs(ss) == IF ss = <<>> THEN <<>> ELSE Head(ss) \o FlattenSeqs(Tail(ss))

-----------------------------------------------------------------------------
(* utils.py: the sentinel codes *)

ResultNames ==
    {"failed to fit model", "no inhibition", "weak inhibition", "complete inhibition"}

RESULT_TO_INT ==
    [r \in ResultNames |->
        CASE r = "failed to fit model" -> 0 - 999
          [] r = "no inhibition" -> 0 - 600
          [] r = "weak inhibition" -> 0 - 400
          [] r = "complete inhibition" -> 0 - 200]

\* a variant of result_to_int with the sign of one code lost
result_to_int_unsigned(result) ==
    IF result = "weak inhibition" THEN 400 ELSE RESULT_TO_INT[result]

result_to_int(result) == RESULT_TO_INT[result]

SentinelCodes == {RESULT_TO_INT[r] : r \in ResultNames}

-----------------------------------------------------------------------------
(* consts.py: the dilution ladder.  stats.py reads consts.DILUTION_1 ..     *)
(* consts.DILUTION_4 (the reciprocal dilutions, least dilute first), which  *)
(* consts.py of this tree does not assign; the model gives them the         *)
(* reciprocals of consts.plate_mapping, the dilutions the data carries.     *)

DILUTION_1 == 40

DILUTION_2 == 160

DILUTION_3 == 640

DILUTION_4 == 2560

\* one, in the 1e-9 units a Dilution is written in
NanoUnit == 10 ^ 9

\* consts.plate_mapping: plate number -> dilution, in 1e-9 units
plate_mapping ==
    [n \in 1..4 |->
        CASE n = 1 -> NanoUnit \div 40
          [] n = 2 -> NanoUnit \div 160
          [] n = 3 -> NanoUnit \div 640
          [] n = 4 -> NanoUnit \div 2560]

\* the dilutions as the tests write them (0.025, 0.00625, 0.001563, 0.000391)
test_dilutions ==
    [n \in 1..4 |->
        CASE n = 1 -> 25000000
          [] n = 2 -> 6250000
          [] n = 3 -> 1563000
          [] n = 4 -> 391000]


-----------------------------------------------------------------------------
(* stats.py: calc_heuristics_dilutions *)

threshold == 50

weak_threshold == 60

\* Percentage Infected values of the modelled series
PctVals == {50, 55, 70}

RECURSIVE SumPct(_)
SumPct(rows) == IF rows = <<>> THEN 0 ELSE Head(rows).Pct + SumPct(Tail(rows))

\* python round(i, -1) of a non-negative int: to the nearest 10, ties to even
RoundTens(i) ==
    LET q == i \div 10
        r == i % 10
    IN  IF r < 5 THEN 10 * q
        ELSE IF r > 5 THEN 10 * (q + 1)
        ELSE IF q % 2 = 0 THEN 10 * q ELSE 10 * (q + 1)

\* avg.index = 1 / avg.index; astype(int); round to nearest 10
DilutionKey(d) == RoundTens(NanoUnit \div d)

\* group.groupby("Dilution")["Percentage Infected"].mean(), re-indexed:
\* key -> <<sum, count>>
GroupMeans(group) ==
    LET ds == {group[i].Dilution : i \in 1..Len(group)}
        rowsOf(d) == SelectSeq(group, LAMBDA row : row.Dilution = d)
        dOf(key) == CHOOSE d \in ds : DilutionKey(d) = key
    IN  [key \in {DilutionKey(d) : d \in ds} |->
            <<SumPct(rowsOf(dOf(key))), Len(rowsOf(dOf(key)))>>]

\* a variant of MeanLe with a strict comparison
MeanLe_strict(m, t) == m[1] < t * m[2]

\* mean <= t, mean > t, mean < t for a mean <<sum, count>>
MeanLe(m, t) == m[1] <= t * m[2]

MeanGt(m, t) == m[1] > t * m[2]

MeanLt(m, t) == m[1] < t * m[2]

\* all(avg.values <= threshold)
AllLe(avg, t) == \A key \in DOMAIN avg : MeanLe(avg[key], t)

\* all(avg.values > weak_threshold)
AllGt(avg, t) == \A key \in DOMAIN avg : MeanGt(avg[key], t)

\* "avg[a] <= t and avg[b] <= t" raises KeyError
PairLeRaises(avg, a, b, t) ==
    \/ a \notin DOMAIN avg
    \/ (MeanLe(avg[a], t) /\ b \notin DOMAIN avg)

PairLe(avg, a, b, t) == MeanLe(avg[a], t) /\ MeanLe(avg[b], t)

\* a variant of Between without the upper limit
Between_no_upper(avg, a, t, w) == MeanGt(avg[a], t)

\* "avg[a] > t and avg[a] < w"
Between(avg, a, t, w) == MeanGt(avg[a], t) /\ MeanLt(avg[a], w)

\* lines 200-201
RuleAllComplete(avg, t, result) ==
    IF AllLe(avg, t) THEN Some("complete inhibition") ELSE result

\* lines 202-219
RuleMostDilute(avg, t, result) ==
    IF PairLeRaises(avg, DILUTION_4, DILUTION_3, t)
    THEN IF PairLeRaises(avg, DILUTION_3, DILUTION_2, t)
         THEN Some("failed to fit model")
         ELSE IF PairLe(avg, DILUTION_3, DILUTION_2, t)
              THEN Some("complete inhibition")
              ELSE result
    ELSE IF PairLe(avg, DILUTION_4, DILUTION_3, t)
         THEN Some("complete inhibition")
         ELSE result

\* a variant of RuleWeak that leaves an earlier classification alone
RuleWeak_keeps_earlier(avg, t, w, result) ==
    IF result # None THEN result
    ELSE IF DILUTION_1 \notin DOMAIN avg
    THEN IF DILUTION_2 \notin DOMAIN avg
         THEN Some("failed to fit model")
         ELSE IF Between(avg, DILUTION_2, t, w)
              THEN Some("weak inhibition")
              ELSE result
    ELSE IF Between(avg, DILUTION_1, t, w)
         THEN Some("weak inhibition")
         ELSE result

\* lines 221-239
RuleWeak(avg, t, w, result) ==
    IF DILUTION_1 \notin DOMAIN avg
    THEN IF DILUTION_2 \notin DOMAIN avg
         THEN Some("failed to fit model")
         ELSE IF Between(avg, DILUTION_2, t, w)
              THEN Some("weak inhibition")
              ELSE result
    ELSE IF Between(avg, DILUTION_1, t, w)
         THEN Some("weak inhibition")
         ELSE result

\* a variant of RuleNoInhibition that leaves an earlier classification alone
RuleNoInhibition_keeps_earlier(avg, w, result) ==
    IF AllGt(avg, w) /\ result = None THEN Some("no inhibition") ELSE result

\* lines 241-242
RuleNoInhibition(avg, w, result) ==
    IF AllGt(avg, w) THEN Some("no inhibition") ELSE result

\* the value of the local "result" before the return
HeuristicsDilutionsResult(group, t, w) ==
    LET avg == GroupMeans(group)
        r1 == RuleAllComplete(avg, t, None)
        r2 == RuleMostDilute(avg, t, r1)
        r3 == RuleWeak(avg, t, w, r2)
    IN  RuleNoInhibition(avg, w, r3)

calc_heuristics_dilutions(group, t, w) ==
    LET result == HeuristicsDilutionsResult(group, t, w)
    IN  IF result # None THEN Some(result_to_int(result[1])) ELSE None

-----------------------------------------------------------------------------
(* stats.py: hampel.  Sequences are 1-indexed here and 0-indexed in the     *)
(* source: x[i] of the source is x[i + 1] here; returned indices are the    *)
(* source's.  A median is carried doubled (Median2) so that the mean of the *)
(* two middle values stays an integer.                                      *)

\* np.nan, as a sample value
NaN == -2000000000

IsNaN(v) == v = NaN

Abs(v) == IF v < 0 THEN 0 - v ELSE v

RECURSIVE InsertSorted(_, _)
InsertSorted(s, v) ==
    IF s = <<>> THEN <<v>>
    ELSE IF v <= Head(s) THEN <<v>> \o s
    ELSE <<Head(s)>> \o InsertSorted(Tail(s), v)

RECURSIVE SortAsc(_)
SortAsc(s) == IF s = <<>> THEN <<>> ELSE InsertSorted(SortAsc(Tail(s)), Head(s))

DropNaN(w) == SelectSeq(w, LAMBDA v : ~IsNaN(v))

\* 2 * np.nanmedian(w), for w with at least one number
Median2(w) ==
    LET s == SortAsc(DropNaN(w))
        n == Len(s)
    IN  IF n % 2 = 1 THEN 2 * s[(n + 1) \div 2]
        ELSE s[n \div 2] + s[n \div 2 + 1]

\* x[(i - k) : (i + k + 1)]
Window(x, i, k) == [j \in 1..(2 * k + 1) |-> x[i - k + j]]

\* np.isnan(window).all()
AllNaN(w) == \A j \in 1..Len(w) : IsNaN(w[j])

\* L = 1.4826, as 14826 / 10000
HampelL == 14826

HampelLDen == 10000

\* 2 * np.abs(w - x0), NaN kept
AbsDev2(w, x02) == [j \in 1..Len(w) |-> IF IsNaN(w[j]) THEN NaN ELSE Abs(2 * w[j] - x02)]

\* the body of the loop for index i: whether i is appended
\* np.abs(x[i] - x0) > t0 * S0  with  S0 = L * nanmedian(abs(window - x0));
\* |x[i] - x0| = d / 2 and nanmedian(...) = m2 / 4 for d, m2 below
HampelFlags_at_least(x, i, k, t0) ==
    LET w == Window(x, i, k)
    IN  /\ ~AllNaN(w)
        /\ ~IsNaN(x[i + 1])
        /\ LET x02 == Median2(w)
               m2 == Median2(AbsDev2(w, x02))
               d == Abs(2 * x[i + 1] - x02)
           IN  2 * HampelLDen * d >= t0 * HampelL * m2

HampelFlags(x, i, k, t0) ==
    LET w == Window(x, i, k)
    IN  /\ ~AllNaN(w)
        /\ ~IsNaN(x[i + 1])
        /\ LET x02 == Median2(w)
               m2 == Median2(AbsDev2(w, x02))
               d == Abs(2 * x[i + 1] - x02)
           IN  2 * HampelLDen * d > t0 * HampelL * m2

\* for i in range((k + 1), (n - k))
HampelRange(n, k) == (k + 1)..(n - k - 1)

RangeSeq(lo, hi) == [j \in 1..(IF hi >= lo THEN hi - lo + 1 ELSE 0) |-> lo + j - 1]

hampel(x, k, t0) ==
    SelectSeq(RangeSeq(k + 1, Len(x) - k - 1), LAMBDA i : HampelFlags(x, i, k, t0))

-----------------------------------------------------------------------------
(* stats.py: intersect_between_curves.  The curve is a sequence of finite   *)
(* samples, one per grid point.                                             *)

\* np.log10 of the reciprocal dilutions read by calc_model_results, 1e-5 decade
Log10Int(d) ==
    CASE d = 40 -> 160206
      [] d = 160 -> 220412
      [] d = 640 -> 280618
      [] d = 2560 -> 340824

\* log10 of 10, 1e-5 decade
LogTen == 10 ^ 5

\* the decimal logarithm of a modelled "Dilution" value, 1e-5 decade
Log10Dilution(d) ==
    CASE d = 25000000 -> 0 - 160206
      [] d = 6250000 -> 0 - 220412
      [] d = 1562500 -> 0 - 280618
      [] d = 390625 -> 0 - 340824
      [] d = 1563000 -> 0 - 280604
      [] d = 391000 -> 0 - 340782

\* np.logspace(lmin, lmax, n)[j], j 0-based, as (n - 1) * log10 of the point
LogSpace(lmin, lmax, n, j) == (n - 1) * lmin + j * (lmax - lmin)

\* np.sign
Sign(v) == IF v > 0 THEN 1 ELSE IF v < 0 THEN 0 - 1 ELSE 0

\* np.diff(np.sign(line - curve))
SignDiff(curve, level) ==
    [i \in 1..(Len(curve) - 1) |-> Sign(level - curve[i + 1]) - Sign(level - curve[i])]

\* np.argwhere(...).flatten(): the 0-based indices of the non-zero entries
ArgWhere(d) == SelectSeq(RangeSeq(0, Len(d) - 1), LAMBDA i : d[i + 1] # 0)

\* a variant of intersect_between_curves that takes the first of several
\* sign changes
intersect_between_curves_first(lmin, lmax, curve, level) ==
    LET idx_arr == ArgWhere(SignDiff(curve, level))
    IN  IF Len(idx_arr) = 0
        THEN [x |-> NaN, y |-> NaN, error |-> TRUE]
        ELSE [x |-> LogSpace(lmin, lmax, Len(curve), idx_arr[1]),
              y |-> curve[idx_arr[1] + 1],
              error |-> FALSE]

\* Intersect(x, y, error); x is a LogSpace value or NaN
intersect_between_curves(lmin, lmax, curve, level) ==
    LET idx_arr == ArgWhere(SignDiff(curve, level))
    IN  IF Len(idx_arr) # 1
        THEN [x |-> NaN, y |-> NaN, error |-> TRUE]
        ELSE [x |-> LogSpace(lmin, lmax, Len(curve), idx_arr[1]),
              y |-> curve[idx_arr[1] + 1],
              error |-> FALSE]

-----------------------------------------------------------------------------
(* stats.py: calc_heuristics_curve *)

\* hampel(y, 5)
CurveWindow == 5

\* min(y)
MinOf(y) == CHOOSE v \in {y[i] : i \in 1..Len(y)} : \A i \in 1..Len(y) : v <= y[i]

\* np.argmin(y): the first index of the minimum, 0-based
ArgMin(y) == (CHOOSE i \in 1..Len(y) :
                 /\ y[i] = MinOf(y)
                 /\ \A j \in 1..(i - 1) : y[j] # MinOf(y)) - 1

\* lines 273-275
RuleOutliers(y, result) ==
    IF hampel(y, CurveWindow, 3) # <<>> THEN Some("failed to fit model") ELSE result

\* idx_min > len(x) / 4
PastQuarter_before(idx_min, n) == 4 * idx_min < n

PastQuarter(idx_min, n) == 4 * idx_min > n

\* lines 279-287
RuleWeakCurve(n, y, t, w, result) ==
    IF MinOf(y) > t /\ MinOf(y) < w
    THEN IF PastQuarter(ArgMin(y), n)
         THEN Some("weak inhibition")
         ELSE Some("failed to fit model")
    ELSE result

\* n is len(x), the grid
calc_heuristics_curve(n, y, t, w) ==
    LET result == RuleWeakCurve(n, y, t, w, RuleOutliers(y, None))
    IN  IF result # None THEN Some(result_to_int(result[1])) ELSE None

-----------------------------------------------------------------------------
(* stats.py: recast_if_out_of_bounds_ic50 and calc_model_results.           *)
(* "result" is one numeric channel in the source: a sentinel code or a      *)
(* positive IC50.  Here it is [kind, value]: kind "code" with the code, or   *)
(* kind "ic50" with (GridN - 1) * log10(IC50), 1e-5 decade.                  *)

\* number of points of the log spaced grid (np.logspace(..., 10000))
GridN == 12

Code(c) == [kind |-> "code", value |-> c]

Ic50(l) == [kind |-> "ic50", value |-> l]

\* a < b for a result a and a positive number b given as Ic50
NumLt(a, b) == IF a.kind = "code" THEN TRUE ELSE a.value < b.value

NumGt(a, b) == IF a.kind = "code" THEN FALSE ELSE a.value > b.value

\* 1.0 / v for a positive v on the grid scale
Recip(l) == 0 - l

RECURSIVE MaxDilution(_)
MaxDilution(x) ==
    IF Len(x) = 1 THEN x[1]
    ELSE LET m == MaxDilution(Tail(x)) IN IF Head(x) > m THEN Head(x) ELSE m

RECURSIVE MinDilution(_)
MinDilution(x) ==
    IF Len(x) = 1 THEN x[1]
    ELSE LET m == MinDilution(Tail(x)) IN IF Head(x) < m THEN Head(x) ELSE m

\* 1.0 / x.max() and 1.0 / x.min() on the grid scale
RecipMax(x) == Ic50(Recip((GridN - 1) * Log10Dilution(MaxDilution(x))))

RecipMin(x) == Ic50(Recip((GridN - 1) * Log10Dilution(MinDilution(x))))

\* a variant of recast_if_out_of_bounds_ic50 without the second test
recast_lower_only(result, x) ==
    IF NumLt(result, RecipMax(x))
    THEN Code(result_to_int("weak inhibition"))
    ELSE result

recast_if_out_of_bounds_ic50(result, x) ==
    LET r1 == IF NumLt(result, RecipMax(x))
              THEN Code(result_to_int("weak inhibition"))
              ELSE result
    IN  IF NumGt(r1, RecipMin(x))
        THEN Code(result_to_int("complete inhibition"))
        ELSE r1

\* df.dropna()
DropNa(df) == SelectSeq(df, LAMBDA row : ~IsNaN(row.Pct))

RECURSIVE InsertByDilution(_, _)
InsertByDilution(s, row) ==
    IF s = <<>> THEN <<row>>
    ELSE IF row.Dilution < Head(s).Dilution THEN <<row>> \o s
    ELSE <<Head(s)>> \o InsertByDilution(Tail(s), row)

\* df.sort_values("Dilution")
RECURSIVE SortByDilution(_)
SortByDilution(df) ==
    IF df = <<>> THEN <<>>
    ELSE InsertByDilution(SortByDilution(SubSeq(df, 1, Len(df) - 1)), df[Len(df)])

\* x_min = (1 / consts.DILUTION_4) / 10 and x_max = (1 / consts.DILUTION_1) * 10,
\* as log10, 1e-5 decade
XMinLog == 0 - Log10Int(DILUTION_4) - LogTen

XMaxLog == 0 - Log10Int(DILUTION_1) + LogTen

\* "if mean_squared_error > 99999: mean_squared_error = 99999"
MseClip == 99999

ClipMse(mse) == IF mse > MseClip THEN MseClip ELSE mse

NoIntersect == [x |-> NaN, y |-> NaN, error |-> FALSE]

\* One run of calc_model_results is a record of the four fields of
\* ModelResults and of the locals of the run.  Before any branch is taken:
RunBase(x, heuristic) ==
    [fit_method |-> "unset", result |-> Code(0),
     model_params |-> None, mean_squared_error |-> None,
     x |-> x, heuristic |-> heuristic, fit_attempted |-> FALSE,
     fit_raised |-> FALSE, curve_checked |-> FALSE,
     curve_heuristics |-> None, intersect_called |-> FALSE,
     intersect |-> NoIntersect]

\* lines 323-325
HeuristicPath(base, heuristic) ==
    [base EXCEPT !.result = Code(heuristic[1]), !.fit_method = "heuristic"]

\* a variant of IntersectStep that drops the MSE with model_params
IntersectStep_drops_mse(fitted, y_fitted, x) ==
    LET intersect == intersect_between_curves(XMinLog, XMaxLog, y_fitted, 50)
        called == [fitted EXCEPT !.intersect_called = TRUE, !.intersect = intersect]
    IN  IF intersect.error
        THEN [called EXCEPT !.result = Code(result_to_int("failed to fit model")),
                            !.model_params = None,
                            !.mean_squared_error = None]
        ELSE [called EXCEPT !.result = recast_if_out_of_bounds_ic50(
                                           Ic50(Recip(intersect.x)), x)]

\* a variant of IntersectStep that keeps model_params on an error
IntersectStep_keeps_params(fitted, y_fitted, x) ==
    LET intersect == intersect_between_curves(XMinLog, XMaxLog, y_fitted, 50)
        called == [fitted EXCEPT !.intersect_called = TRUE, !.intersect = intersect]
    IN  IF intersect.error
        THEN [called EXCEPT !.result = Code(result_to_int("failed to fit model"))]
        ELSE [called EXCEPT !.result = recast_if_out_of_bounds_ic50(
                                           Ic50(Recip(intersect.x)), x)]

\* lines 350-357
IntersectStep(fitted, y_fitted, x) ==
    LET intersect == intersect_between_curves(XMinLog, XMaxLog, y_fitted, 50)
        called == [fitted EXCEPT !.intersect_called = TRUE, !.intersect = intersect]
    IN  IF intersect.error
        THEN [called EXCEPT !.result = Code(result_to_int("failed to fit model")),
                            !.model_params = None]
        ELSE [called EXCEPT !.result = recast_if_out_of_bounds_ic50(
                                           Ic50(Recip(intersect.x)), x)]

\* lines 326-357.  fit is what non_linear_model and dr_4 give: fit.raises
\* (curve_fit raised RuntimeError), or the parameters fit.params with
\* fit.y_fitted = dr_4(x_interpolated, *params) and
\* fit.mse = model_mse(dr_4(x, *params), y).
FitPath(base, x, fit, t, w) ==
    IF fit.raises
    THEN [base EXCEPT !.fit_method = "model fit",
                      !.result = Code(result_to_int("failed to fit model")),
                      !.fit_attempted = TRUE, !.fit_raised = TRUE]
    ELSE LET curve_heuristics == calc_heuristics_curve(GridN, fit.y_fitted, t, w)
             fitted == [base EXCEPT !.fit_method = "model fit",
                                    !.fit_attempted = TRUE,
                                    !.model_params = Some(fit.params),
                                    !.mean_squared_error = Some(ClipMse(fit.mse)),
                                    !.curve_checked = TRUE,
                                    !.curve_heuristics = curve_heuristics]
         IN  IF curve_heuristics # None
             THEN [fitted EXCEPT !.result = Code(curve_heuristics[1])]
             ELSE IntersectStep(fitted, fit.y_fitted, x)

\* a variant of ModelRun that calls the optimizer before it looks at the
\* raw-data heuristic
ModelRun_fits_first(df, fit, t, w) ==
    LET d == SortByDilution(DropNa(df))
        x == [i \in 1..Len(d) |-> d[i].Dilution]
        heuristic == calc_heuristics_dilutions(d, t, w)
        base == [RunBase(x, heuristic) EXCEPT !.fit_attempted = TRUE]
    IN  IF heuristic # None
        THEN HeuristicPath(base, heuristic)
        ELSE FitPath(base, x, fit, t, w)

\* lines 314-359
ModelRun(df, fit, t, w) ==
    LET d == SortByDilution(DropNa(df))
        x == [i \in 1..Len(d) |-> d[i].Dilution]
        heuristic == calc_heuristics_dilutions(d, t, w)
        base == RunBase(x, heuristic)
    IN  IF heuristic # None
        THEN HeuristicPath(base, heuristic)
        ELSE FitPath(base, x, fit, t, w)

\* ModelResults(fit_method, result, model_params, mean_squared_error)
ModelResults(run) ==
    [fit_method |-> run.fit_method, result |-> run.result,
     model_params |-> run.model_params,
     mean_squared_error |-> run.mean_squared_error]

calc_model_results(df, fit, t, w) == ModelResults(ModelRun(df, fit, t, w))

-----------------------------------------------------------------------------
(* failure.py: the failure records.  WellFailure and PlateFailure are plain  *)
(* classes without __eq__ or __hash__, so a set holds them by identity: the  *)
(* field oid is the identity of the object.  A call binds its keyword        *)
(* arguments to the parameters of __init__, and a read of a module attribute *)
(* finds a name the module defines; either fails with an exception.          *)

\* the text of a reason is a kind and the numbers embedded in it
Reason(kind, detail) == [kind |-> kind, detail |-> detail]

\* a str held by a failure is the sequence of its characters; a well name is
\* a row letter and two digits
WellNameChars ==
    {"A", "B", "C", "D", "E", "F", "G", "H"}
    \X {"0", "1"}
    \X {"0", "1", "2", "3", "4", "5", "6", "7", "8", "9"}

Chars(well) == CHOOSE cs \in WellNameChars : cs[1] \o cs[2] \o cs[3] = well

\* the items that iterating a str gives: its characters, each a str
Iterate(text) == [i \in 1..Len(text) |-> <<text[i]>>]

\* sep.join(items) of a sequence of strs
RECURSIVE Join(_, _)
Join(sep, items) ==
    IF items = <<>> THEN <<>>
    ELSE IF Len(items) = 1 THEN items[1]
    ELSE items[1] \o sep \o Join(sep, Tail(items))

\* ";".join(wells) of a sequence of well names
JoinWells(wells) == Join(<<";">>, [i \in 1..Len(wells) |-> Chars(wells[i])])

WellFailure(oid, well, plate, reason) ==
    [type |-> "well_failure", oid |-> oid, plate |-> plate, well |-> Chars(well),
     reason |-> reason]

PlateFailure(oid, plate, wells, reason) ==
    [type |-> "plate_failure", oid |-> oid, plate |-> plate, wells |-> wells,
     reason |-> reason]

\* the identity of the next object made for a collection
NewOid(failures) == Cardinality(failures) + 1

\* the parameters of WellFailure.__init__ and of PlateFailure.__init__
WellFailureParameters == {"well", "plate", "reason"}

PlateFailureParameters == {"plate", "wells", "reason"}

\* a keyword that names no parameter raises TypeError
Binds(keywords, parameters) == keywords \subseteq parameters

\* the names the module failure defines; the read of any other name raises
\* AttributeError
FailureNames ==
    {"PlateFailure", "InfectionPlateFailure", "CellAreaPlateFailure",
     "DAPIPlateFailure", "WellFailure"}

HasAttr(name) == name \in FailureNames

\* what to_dict() gives: the value of a failure without its identity
FailureValue(f) ==
    IF f.type = "well_failure"
    THEN [type |-> f.type, plate |-> f.plate, well |-> f.well, reason |-> f.reason]
    ELSE [type |-> f.type, plate |-> f.plate, wells |-> f.wells, reason |-> f.reason]

-----------------------------------------------------------------------------
(* qc_criteria.py as sample.py and plate.py read it *)

\* qc_criteria.mse_upper_limit
mse_upper_limit == 150

\* qc_criteria.duplicate_difference
duplicate_difference == 25

\* the variants with a registered positive control range
RegisteredVariants == {"England2"}

\* qc_criteria.positive_control_ic50: variant -> range, on the grid scale
PositiveControlLow == 40

PositiveControlHigh == 300

Log10Limit(v) ==
    CASE v = 40 -> 160206
      [] v = 300 -> 247712

positive_control_ic50 ==
    [v \in RegisteredVariants |->
        [low |-> (GridN - 1) * Log10Limit(PositiveControlLow),
         high |-> (GridN - 1) * Log10Limit(PositiveControlHigh)]]

-----------------------------------------------------------------------------
(* sample.py: Sample *)

POSITIVE_CONTROL_WELLS == {"D12", "E12", "A06", "H06"}

\* utils.INT_TO_RESULT[integer]
int_to_result(integer) == CHOOSE r \in ResultNames : RESULT_TO_INT[r] = integer

\* "self.ic50 if self.ic50 > 0 else utils.int_to_result(int(self.ic50))":
\* the text of a code, or no text for a number
Ic50Pretty(ic50) == IF ic50.kind = "ic50" THEN "" ELSE int_to_result(ic50.value)

\* a number compared with a result: "self.ic50 < limit", "self.ic50 > limit"
ResultBelow(ic50, limit) == IF ic50.kind = "code" THEN TRUE ELSE ic50.value < limit

ResultAbove(ic50, limit) == IF ic50.kind = "code" THEN FALSE ELSE ic50.value > limit

DilutionSeriesPlate == "DILUTION SERIES"

\* the keywords of the calls failure.WellFailure(plate=..., well=...,
\* failure_reason=...) at lines 130, 165, 186 and 210
SampleFailureKeywords == {"plate", "well", "failure_reason"}

\* "failure.WellFailure(plate="DILUTION SERIES", well=self.sample_name,
\* failure_reason=...)" then "self.failures.add(...)": the call comes first,
\* and an exception it raises leaves failures as it was
AddWellFailure(self, reason) ==
    IF Binds(SampleFailureKeywords, WellFailureParameters)
    THEN [self EXCEPT !.failures = @ \cup
             {WellFailure(NewOid(@), self.sample_name, DilutionSeriesPlate, reason)}]
    ELSE [self EXCEPT !.raised = "TypeError"]

\* lines 208-215
check_for_model_mse_failure(self, limit) ==
    IF self.mean_squared_error # None /\ self.mean_squared_error[1] > limit
    THEN AddWellFailure(self, Reason("model MSE >", <<limit, self.mean_squared_error[1]>>))
    ELSE self

\* one statement after another: F applied to the value of x, which is
\* computed once
Once(F(_), x) == CHOOSE r \in {F(v) : v \in {x}} : TRUE

\* lines 98-106
calc_ic50(self, fit) ==
    LET Assign(model_results) ==
            [self EXCEPT !.fit_method = model_results.fit_method,
                         !.ic50 = model_results.result,
                         !.ic50_pretty = Ic50Pretty(model_results.result),
                         !.model_params = model_results.model_params,
                         !.mean_squared_error = model_results.mean_squared_error]
        Check(assigned) == check_for_model_mse_failure(assigned, mse_upper_limit)
    IN  Once(Check, Once(Assign, calc_model_results(self.data, fit, threshold,
                                                    weak_threshold)))

\* lines 124-133; the lookup of a variant without a range raises KeyError
check_positive_control(self) ==
    IF ~self.is_positive_control THEN self
    ELSE IF self.variant \notin DOMAIN positive_control_ic50
    THEN [self EXCEPT !.raised = "KeyError"]
    ELSE LET lower_limit == positive_control_ic50[self.variant].low
             upper_limit == positive_control_ic50[self.variant].high
         IN  IF ResultBelow(self.ic50, lower_limit) \/ ResultAbove(self.ic50, upper_limit)
             THEN AddWellFailure(self, Reason("positive control failure",
                                              <<self.ic50.value, lower_limit, upper_limit>>))
             ELSE self

\* the distinct dilutions of the rows: the keys of data.groupby("Dilution")
DilutionsOf(data) == {data[i].Dilution : i \in 1..Len(data)}

GroupOf(data, d) == SelectSeq(data, LAMBDA row : row.Dilution = d)

\* lines 158-162: a group of two rows whose values differ by at least the
\* threshold (a comparison with nan is False)
Discordant(group, difference_threshold) ==
    /\ Len(group) = 2
    /\ ~IsNaN(group[1].Pct) /\ ~IsNaN(group[2].Pct)
    /\ Abs(group[1].Pct - group[2].Pct) >= difference_threshold

\* lines 151-170
check_duplicate_differences(self) ==
    LET difference_threshold == duplicate_difference
        failed_count == Cardinality({d \in DilutionsOf(self.data) :
                            Discordant(GroupOf(self.data, d), difference_threshold)})
        ran == [self EXCEPT !.ran = Append(@, "check_duplicate_differences")]
    IN  IF self.ic50_pretty \in {"no inhibition", "failed to fit model"}
        THEN ran
        ELSE IF failed_count >= 2
        THEN AddWellFailure(ran, Reason("2 or more duplicates differ by >=",
                                        <<difference_threshold>>))
        ELSE ran

\* lines 185-191
check_for_model_fit_failure(self) ==
    LET ran == [self EXCEPT !.ran = Append(@, "check_for_model_fit_failure")]
    IN  IF self.ic50_pretty = "failed to fit model"
           \/ self.ic50 = Code(result_to_int("failed to fit model"))
        THEN AddWellFailure(ran, Reason("failed to fit model to data points", <<>>))
        ELSE ran

\* lines 66-69: the object before calc_ic50; raised names the exception that
\* left __init__, ran the checks entered after check_positive_control;
\* is_positive_control is FALSE until line 71 assigns it
SampleNew(sample_name, data, variant) ==
    [sample_name |-> sample_name, data |-> data, variant |-> variant,
     failures |-> {}, fit_method |-> "unset", ic50 |-> Code(0), ic50_pretty |-> "",
     model_params |-> None, mean_squared_error |-> None,
     is_positive_control |-> FALSE, raised |-> "", ran |-> <<>>]

\* one statement after another inside __init__: an exception ends it
Then(F(_), x) == CHOOSE r \in {IF v.raised # "" THEN v ELSE F(v) : v \in {x}} : TRUE

\* lines 65-74: Sample.__init__; fit is what the optimizer gives
Sample(sample_name, data, variant, fit) ==
    LET Named(fitted) ==
            [fitted EXCEPT !.is_positive_control = sample_name \in POSITIVE_CONTROL_WELLS]
    IN  Then(check_for_model_fit_failure,
             Then(check_duplicate_differences,
                  Then(check_positive_control,
                       Then(Named, calc_ic50(SampleNew(sample_name, data, variant), fit)))))

-----------------------------------------------------------------------------
(* plate.py: Plate.  A ratio or a rate is a number of thousandths; the rows  *)
(* of df carry the well and its "Cells - Image Region Area" value.           *)

VIRUS_ONLY_WELLS == <<"A12", "B12", "C12", "B06", "C06", "D06", "E06", "F06", "G06">>

\* the well names for which Well.str.endswith("12") holds
Column12 == {"A12", "B12", "C12", "D12", "E12", "F12", "G12", "H12"}

\* qc_criteria.low_cells_image_region_area_low = 0.6, _high = 1.5
low_cells_image_region_area_low == 600

low_cells_image_region_area_high == 1500

\* qc_criteria.infection_rate_low = 0.4, infection_rate_high = 0.8
infection_rate_low == 400

infection_rate_high == 800

Thousand == 1000

\* the keywords of the calls failure.PlateFailure(plate=..., well=...,
\* failure_reason=...) at lines 112, 131 and 185, and of
\* failure.WellFailure(well=..., plate=..., failure_reason=...) at line 120
PlateFailureKeywords == {"plate", "well", "failure_reason"}

PlateWellFailureKeywords == {"well", "plate", "failure_reason"}

\* the value of a name of the module failure
FailureAttr(name) == Reason(name, <<>>)

\* "self.plate_failed = True" and then "failure.PlateFailure(plate=
\* self.barcode, well=";".join(wells), failure_reason=...)" with
\* "self.plate_failures.add(...)": the flag is set before the call, the
\* arguments are evaluated before the keywords are bound; attr is the name
\* read from the module failure for the reason, or no name
FailPlate(self, wells, attr, reason) ==
    LET failed == [self EXCEPT !.plate_failed = TRUE]
    IN  IF attr # None /\ ~HasAttr(attr[1])
        THEN [failed EXCEPT !.raised = "AttributeError"]
        ELSE IF ~Binds(PlateFailureKeywords, PlateFailureParameters)
        THEN [failed EXCEPT !.raised = "TypeError"]
        ELSE [failed EXCEPT !.plate_failures = @ \cup
                 {PlateFailure(NewOid(@), self.barcode, wells, reason)}]

\* qc_criteria.infection_rate[variant]: the range of a variant with an
\* override, or the default range without an upper limit
infection_rate(variant) ==
    IF variant \in RegisteredVariants
    THEN [low |-> infection_rate_low, high |-> Some(infection_rate_high)]
    ELSE [low |-> infection_rate_low, high |-> None]

\* "infection > upper_limit", where no upper limit is +infinity
AboveLimit(infection, upper_limit) ==
    upper_limit # None /\ infection > upper_limit[1]

\* lines 179-190
check_infection(self, infection) ==
    LET infection_limits == infection_rate(self.variant)
        lower_limit == infection_limits.low
        upper_limit == infection_limits.high
    IN  IF infection < lower_limit \/ AboveLimit(infection, upper_limit)
        THEN FailPlate(self, JoinWells(VIRUS_ONLY_WELLS), None,
                       Reason("virus-only infection median outside range",
                              <<infection, lower_limit, upper_limit>>))
        ELSE self

\* lines 99-101: ratio < limit and ratio > limit, with ratio the area over
\* the median of the plate (a positive number); Median2 is twice the median
RatioBelow(area, median2, limit) == 2 * area * Thousand < limit * median2

RatioAbove(area, median2, limit) == 2 * area * Thousand > limit * median2

\* lines 97-106: pd.concat([low, high])
Outliers(df) ==
    LET experiment_median2 == Median2([i \in 1..Len(df) |-> df[i].area])
        low == SelectSeq(df, LAMBDA row :
                   RatioBelow(row.area, experiment_median2, low_cells_image_region_area_low))
        high == SelectSeq(df, LAMBDA row :
                    RatioAbove(row.area, experiment_median2, low_cells_image_region_area_high))
    IN  low \o high

\* rows["Well"]: the column of the well names
WellsOf(rows) == [i \in 1..Len(rows) |-> rows[i].Well]

\* line 107
control_outliers(outliers) == SelectSeq(outliers, LAMBDA row : row.Well \in Column12)

\* lines 108-118
ControlStep(self, outliers) ==
    IF Len(control_outliers(outliers)) > 0
    THEN FailPlate(self, JoinWells(WellsOf(control_outliers(outliers))),
                   Some("CELL_IMAGE_AREA_FAILURE_REASON"),
                   FailureAttr("CELL_IMAGE_AREA_FAILURE_REASON"))
    ELSE self

\* lines 119-126: the loop over the rows of outliers; the first row whose
\* call raises ends it
WellStep(self, outliers) ==
    IF Len(outliers) = 0 THEN self
    ELSE IF ~HasAttr("CELL_REGION_FAILURE_REASON")
    THEN [self EXCEPT !.raised = "AttributeError"]
    ELSE IF ~Binds(PlateWellFailureKeywords, WellFailureParameters)
    THEN [self EXCEPT !.raised = "TypeError"]
    ELSE [self EXCEPT !.well_failures = @ \cup
            {WellFailure(Cardinality(@) + i, outliers[i].Well, self.barcode,
                         FailureAttr("CELL_REGION_FAILURE_REASON")) :
                i \in 1..Len(outliers)}]

\* lines 127-136
DapiLimit == 8

DapiStep(self, outliers) ==
    IF Len(outliers) > DapiLimit
    THEN FailPlate(self, JoinWells(WellsOf(outliers)), Some("DAPI_PLATE_FAILURE_REASON"),
                   FailureAttr("DAPI_PLATE_FAILURE_REASON"))
    ELSE self

\* lines 93-136
outside_image_area(self) ==
    LET outliers == Outliers(self.df)
        Control(plate) == ControlStep(plate, outliers)
        Wells(plate) == WellStep(plate, outliers)
        Dapi(plate) == DapiStep(plate, outliers)
    IN  Then(Dapi, Then(Wells, Then(Control, self)))

\* lines 74-83
PlateNew(df, barcode, variant) ==
    [df |-> df, barcode |-> barcode, variant |-> variant, plate_failed |-> FALSE,
     well_failures |-> {}, plate_failures |-> {}, raised |-> ""]

\* lines 74-85; infection is the median of the virus-only wells that
\* calc_percentage_infected hands to check_infection (lines 204-207); raised
\* names the exception that left __init__
Plate(df, barcode, variant, infection) ==
    Then(outside_image_area, check_infection(PlateNew(df, barcode, variant), infection))

-----------------------------------------------------------------------------
(* Input series *)

\* the replicate values of one level: at most n of them, in any order that
\* is non-decreasing (the order of replicates does not reach the code)
RepTuples(vals, n) == {s \in SeqsUpTo(vals, n) : IsNonDecreasing(s)}

\* the rows of a series, least dilute level first
SeriesRows(ladder, reps) ==
    FlattenSeqs([l \in 1..4 |->
        [i \in 1..Len(reps[l]) |-> [Dilution |-> ladder[l], Pct |-> reps[l][i]]]])

SeriesSet(ladder, vals, n) ==
    {SeriesRows(ladder, reps) : reps \in [1..4 -> RepTuples(vals, n)]}

-----------------------------------------------------------------------------
(* The calls *)

Idle ==
    /\ op = "idle"
    /\ args = [none |-> TRUE]
    /\ ret = [none |-> TRUE]

Init == Idle

Return ==
    /\ op # "idle"
    /\ op' = "idle"
    /\ args' = [none |-> TRUE]
    /\ ret' = [none |-> TRUE]

CallHeuristicsDilutions ==
    /\ op = "idle"
    /\ \E group \in SeriesSet(test_dilutions, PctVals, MaxReps) :
        /\ op' = "calc_heuristics_dilutions"
        /\ args' = [group |-> group, threshold |-> threshold,
                    weak_threshold |-> weak_threshold]
        /\ ret' = [value |-> calc_heuristics_dilutions(group, threshold, weak_threshold),
                   local |-> HeuristicsDilutionsResult(group, threshold, weak_threshold)]

\* sample values of the sequences given to hampel
HampelVals == {0, 1, 3, NaN}

CallHampel ==
    /\ op = "idle"
    /\ \E x \in SeqsUpTo(HampelVals, MaxLen), k \in 1..MaxK :
        /\ op' = "hampel"
        /\ args' = [x |-> x, k |-> k, t0 |-> 3]
        /\ ret' = [indices |-> hampel(x, k, 3)]

\* sampled curves: piecewise constant over the grid, at most segs pieces
StepCurves(vals, segs, n) ==
    LET breaks == {B \in SUBSET (1..(n - 1)) : Cardinality(B) <= segs - 1}
        curve(B, vs) == [i \in 1..n |-> vs[1 + Cardinality({b \in B : b < i})]]
    IN  {curve(B, vs) : B \in breaks, vs \in [1..segs -> vals]}

CurveVals == {40, 50, 55, 70}

\* sampled curves that fall by slope from one grid point to the next and
\* pass the level, or the level + offset, at some grid point
RampCurves(level, slope, offsets, n) ==
    {[i \in 1..n |-> level + d + slope * (j - i)] : j \in 1..n, d \in offsets}

CallIntersect ==
    /\ op = "idle"
    /\ \E curve \in StepCurves(CurveVals, MaxSegs, GridN)
                    \cup RampCurves(50, 5, {0, 2}, GridN) :
        /\ op' = "intersect_between_curves"
        /\ args' = [x_min |-> XMinLog, x_max |-> XMaxLog, curve |-> curve,
                    intersect |-> 50]
        /\ ret' = intersect_between_curves(XMinLog, XMaxLog, curve, 50)

CallHeuristicsCurve ==
    /\ op = "idle"
    /\ \E y \in StepCurves(CurveVals, MaxSegs, GridN) :
        /\ op' = "calc_heuristics_curve"
        /\ args' = [n |-> GridN, y |-> y, threshold |-> threshold,
                    weak_threshold |-> weak_threshold]
        /\ ret' = [value |-> calc_heuristics_curve(GridN, y, threshold, weak_threshold),
                   outliers |-> hampel(y, CurveWindow, 3)]

\* the series given to calc_model_results: one row per level of the
\* plate_mapping ladder, with a value that may be missing (NaN)
FitPctVals == {50, 70, NaN}

FitSeriesSet ==
    {SeriesRows(plate_mapping, reps) : reps \in [1..4 -> [1..1 -> FitPctVals]]}

FitCurveVals == {40, 55, 70}

\* the curves a fit can give: at most segs pieces that alternate between two
\* levels (a plateau, a step, a spike or a dip, a double step)
FitCurves(vals, segs, n) ==
    {y \in StepCurves(vals, segs, n) : Cardinality({y[i] : i \in 1..n}) <= 2}

\* model_mse of a fit; the larger is too large for the database column
MseVals == {100, 100000}

\* what the optimizer can give: it raises, or it returns parameters; a
\* plateau can miss the observations by any amount
FitOutcomes ==
    {[raises |-> TRUE, params |-> "none", y_fitted |-> <<>>, mse |-> 0]}
    \cup {[raises |-> FALSE, params |-> "popt", y_fitted |-> y, mse |-> m] :
              y \in FitCurves(FitCurveVals, MaxSegs, GridN),
              m \in {v \in MseVals : v <= MseClip}}
    \cup {[raises |-> FALSE, params |-> "popt", y_fitted |-> y, mse |-> m] :
              y \in FitCurves(FitCurveVals, 1, GridN),
              m \in {v \in MseVals : v > MseClip}}

\* the optimizer is not reached when the raw-data heuristic gives a code
NotReached == [raises |-> FALSE, params |-> "not reached", y_fitted |-> <<>>, mse |-> 0]

RunLocals(run) ==
    [x |-> run.x, heuristic |-> run.heuristic, fit_attempted |-> run.fit_attempted,
     fit_raised |-> run.fit_raised, curve_checked |-> run.curve_checked,
     curve_heuristics |-> run.curve_heuristics,
     intersect_called |-> run.intersect_called, intersect |-> run.intersect]

CallCalcModelResults ==
    /\ op = "idle"
    /\ \E df \in FitSeriesSet :
        \E fit \in (IF calc_heuristics_dilutions(SortByDilution(DropNa(df)),
                                                 threshold, weak_threshold) = None
                    THEN FitOutcomes ELSE {NotReached}) :
            /\ op' = "calc_model_results"
            /\ args' = [df |-> df, optimizer |-> fit, threshold |-> threshold,
                        weak_threshold |-> weak_threshold]
            /\ ret' = LET run == ModelRun(df, fit, threshold, weak_threshold)
                      IN  [value |-> ModelResults(run), locals |-> RunLocals(run)]

\* the replicates of one level of a sample: a pair that differs by more, by
\* exactly, or by less than duplicate_difference, a pair with a missing
\* value, three
SampleRepTuples ==
    {<<40, 70>>, <<70, 95>>, <<50, 70>>, <<NaN, 70>>, <<20, 50, 80>>}

SampleSeriesSet ==
    {SeriesRows(plate_mapping, reps) : reps \in [1..4 -> SampleRepTuples]}

\* a sampled curve that falls from hi to lo after grid point b
FallingStep(hi, lo, b, n) == [i \in 1..n |-> IF i <= b THEN hi ELSE lo]

\* the fits given to a Sample: the optimizer raises; a falling step (an IC50
\* inside or outside the tested range); a plateau above or between the
\* thresholds; each with an MSE equal to mse_upper_limit, and one with an MSE
\* above it, one with an MSE above MseClip
SampleFits ==
    {[raises |-> TRUE, params |-> "none", y_fitted |-> <<>>, mse |-> 0]}
    \cup {[raises |-> FALSE, params |-> "popt", y_fitted |-> FallingStep(70, 40, b, GridN),
           mse |-> mse_upper_limit] : b \in {2, 5, 8, 11}}
    \cup {[raises |-> FALSE, params |-> "popt", y_fitted |-> FallingStep(v, v, 1, GridN),
           mse |-> mse_upper_limit] : v \in {55, 70}}
    \cup {[raises |-> FALSE, params |-> "popt", y_fitted |-> FallingStep(70, 40, 8, GridN),
           mse |-> mse_upper_limit + 50],
          [raises |-> FALSE, params |-> "popt", y_fitted |-> FallingStep(70, 70, 1, GridN),
           mse |-> MseClip + 1]}

SampleNames == {"A01", "A06"}

VariantNames == {"England2", "unregistered"}

CallSample ==
    /\ op = "idle"
    /\ \E sample_name \in SampleNames, variant \in VariantNames, data \in SampleSeriesSet :
        \E fit \in (IF calc_heuristics_dilutions(SortByDilution(DropNa(data)),
                                                 threshold, weak_threshold) = None
                    THEN SampleFits ELSE {NotReached}) :
            /\ op' = "Sample"
            /\ args' = [sample_name |-> sample_name, data |-> data,
                        variant |-> variant, optimizer |-> fit]
            /\ ret' = Sample(sample_name, data, variant, fit)

\* the wells of a plate frame: 22 sample and virus-only wells, then two of
\* column 12
PlateWellNames ==
    <<"A06", "A01", "A02", "A03", "A04", "A05", "A07", "A08", "A09", "A10", "A11",
      "B01", "B02", "B03", "B04", "B05", "B06", "B07", "B08", "B09", "B10", "B11",
      "A12", "B12">>

NormalArea == 1000

\* a frame whose first nl wells have the area lowv, the next nh the area
\* highv, the two wells of column 12 the areas c1 and c2, the rest NormalArea
AreaFrame(nl, nh, lowv, highv, c1, c2) ==
    [i \in 1..Len(PlateWellNames) |->
        [Well |-> PlateWellNames[i],
         area |-> IF i <= nl THEN lowv
                  ELSE IF i <= nl + nh THEN highv
                  ELSE IF i = Len(PlateWellNames) - 1 THEN c1
                  ELSE IF i = Len(PlateWellNames) THEN c2
                  ELSE NormalArea]]

\* frames with 0 to 11 flagged wells: areas below and at the low limit, at
\* and above the high limit; each well of column 12 low, normal or high
PlateFrames ==
    {AreaFrame(nl, nh, lowv, highv, c1, c2) :
        nl \in {0, 1, 5}, nh \in {0, 1, 4}, lowv \in {500, 600}, highv \in {1500, 1600},
        c1 \in {500, NormalArea, 1600}, c2 \in {500, NormalArea, 1600}}

\* medians of the virus-only wells below, at, inside, at and above the limits
InfectionVals == {350, 400, 500, 800, 900}

Barcode == "S01000001"

CallPlate ==
    /\ op = "idle"
    /\ \E df \in PlateFrames, variant \in VariantNames, infection \in InfectionVals :
        /\ op' = "Plate"
        /\ args' = [df |-> df, variant |-> variant, infection |-> infection]
        /\ ret' = Plate(df, Barcode, variant, infection)

CallCheckInfection ==
    /\ op = "idle"
    /\ \E variant \in VariantNames, infection \in InfectionVals :
        /\ op' = "check_infection"
        /\ args' = [variant |-> variant, infection |-> infection]
        /\ ret' = check_infection(PlateNew(<<>>, Barcode, variant), infection)

\* "failures.add(failure.WellFailure(well, plate, reason))" on one of the
\* collections made by "set()" (sample.py line 69, plate.py lines 82-83):
\* the call makes a new object, and the set holds objects by identity
add_failure(failures, well, plate, reason) ==
    failures \cup {WellFailure(NewOid(failures), well, plate, reason)}

AddedReasons ==
    {Reason("failed to fit model to data points", <<>>),
     Reason("2 or more duplicates differ by >=", <<duplicate_difference>>)}

\* a collection that starts empty and has two failures added to it, with
\* equal or with different reasons, for the same well
CallAddFailure ==
    /\ op = "idle"
    /\ \E well \in SampleNames, first \in AddedReasons, second \in AddedReasons :
        /\ op' = "failures.add"
        /\ args' = [well |-> well, plate |-> DilutionSeriesPlate,
                    reasons |-> <<first, second>>]
        /\ ret' = [failures |->
                      add_failure(add_failure({}, well, DilutionSeriesPlate, first),
                                  well, DilutionSeriesPlate, second)]

(* utils.py: well labels.  A label is its sequence of characters. *)

ascii_uppercase ==
    <<"A", "B", "C", "D", "E", "F", "G", "H", "I", "J", "K", "L", "M",
      "N", "O", "P", "Q", "R", "S", "T", "U", "V", "W", "X", "Y", "Z">>

AsciiDigits == <<"0", "1", "2", "3", "4", "5", "6", "7", "8", "9">>

\* ord(c) - 64 of an upper-case letter
LetterNumber(c) == CHOOSE i \in 1..Len(ascii_uppercase) : ascii_uppercase[i] = c

\* int(s) of a string of decimal digits
RECURSIVE ParseInt(_)
ParseInt(s) ==
    IF s = <<>> THEN 0
    ELSE 10 * ParseInt(SubSeq(s, 1, Len(s) - 1))
         + (CHOOSE d \in 0..9 : AsciiDigits[d + 1] = s[Len(s)])

\* math.ceil(n / 2) of a positive integer
CeilHalf(n) == (n + 1) \div 2

\* f"{letter}{col:02}"
FormatWell(letter, col) ==
    IF col < 10 THEN <<letter, "0", AsciiDigits[col + 1]>>
    ELSE <<letter, AsciiDigits[(col \div 10) + 1], AsciiDigits[(col % 10) + 1]>>

well_384_to_96(well) ==
    LET row == CeilHalf(LetterNumber(well[1])) - 1
        col == CeilHalf(ParseInt(Tail(well)))
    IN  FormatWell(ascii_uppercase[row + 1], col)

is_odd(n) == n % 2 # 0

is_even(n) == n % 2 = 0

get_dilution_from_384_well_label_swapped(well) ==
    LET row_int == LetterNumber(well[1])
        col_int == ParseInt(Tail(well))
    IN  IF (row_int % 2 # 0) /\ (col_int % 2 # 0) THEN 4
        ELSE IF (row_int % 2 # 0) /\ (col_int % 2 = 0) THEN 3
        ELSE IF (row_int % 2 = 0) /\ (col_int % 2 # 0) THEN 2
        ELSE 1

get_dilution_from_384_well_label(well) ==
    LET row_int == LetterNumber(well[1])
        col_int == ParseInt(Tail(well))
    IN  IF is_odd(row_int) /\ is_odd(col_int) THEN 4
        ELSE IF is_odd(row_int) /\ is_even(col_int) THEN 2
        ELSE IF is_even(row_int) /\ is_odd(col_int) THEN 3
        ELSE IF is_even(row_int) /\ is_even(col_int) THEN 1
        ELSE 0 - 1

\* the labels of a 384-well plate, rows A-P and columns 1-24, with the
\* column zero-padded to two digits or not
Wells384 ==
    {FormatWell(ascii_uppercase[r], c) : r \in 1..16, c \in 1..24}
    \cup {<<ascii_uppercase[r], AsciiDigits[c + 1]>> : r \in 1..16, c \in 1..9}

CallWell384 ==
    /\ op = "idle"
    /\ \E well \in Wells384 :
        /\ op' = "well_384"
        /\ args' = [well |-> well]
        /\ ret' = [well_96 |-> well_384_to_96(well),
                   dilution |-> get_dilution_from_384_well_label(well)]

(* experiment.py: Experiment.  plates and samples are the stores: the Plate  *)
(* objects and the Sample objects in the order groupby gives their groups,   *)
(* that of the sorted barcodes and of the sorted wells; the key of an object *)
(* is its barcode or its sample_name.  A list made from a set of failures    *)
(* has no order of its own: it is kept as the set of its items, each with    *)
(* the object it was made from (origin), and the first item of such a list   *)
(* is any of them.                                                           *)

\* lines 67-93: the dictionaries of to_dict(), by plate for the failed
\* plates, and in one list for the wells of the plates and the samples
get_failures_as_json(plates, samples) ==
    LET failed == {n \in DOMAIN plates : plates[n].plate_failed}
        PlateNamed(name) == plates[CHOOSE n \in failed : plates[n].barcode = name]
    IN  [plate_failures |->
            [name \in {plates[n].barcode : n \in failed} |->
                {[origin |-> <<"plate", name, f.oid>>, dict |-> FailureValue(f)] :
                    f \in PlateNamed(name).plate_failures}],
         well_failures |->
            UNION {{[origin |-> <<"well", plates[n].barcode, f.oid>>,
                     dict |-> FailureValue(f)] :
                        f \in plates[n].well_failures} : n \in DOMAIN plates}
            \cup
            UNION {{[origin |-> <<"sample", samples[n].sample_name, f.oid>>,
                     dict |-> FailureValue(f)] :
                        f \in samples[n].failures} : n \in DOMAIN samples}]

\* lines 95-138: the rows of the frame; first[name] is plate_list[0] of the
\* list of the plate name.  plate["wells"] is a str, so the join of line 113
\* puts a ";" between its characters; the well of a well failure is taken
\* as it is
get_failures_as_dataframe(failures_dict, first) ==
    {[origin |-> first[name].origin, failure_type |-> first[name].dict.type,
      plate |-> first[name].dict.plate,
      well |-> Join(<<";">>, Iterate(first[name].dict.wells)),
      failure_reason |-> first[name].dict.reason] :
        name \in DOMAIN failures_dict.plate_failures}
    \cup
    {[origin |-> item.origin, failure_type |-> item.dict.type,
      plate |-> item.dict.plate, well |-> item.dict.well,
      failure_reason |-> item.dict.reason] :
        item \in failures_dict.well_failures}

\* the exception of the first of the constructor calls made one after
\* another that raised: it ends the loop
FirstRaised(made) ==
    LET at == {i \in 1..Len(made) : made[i].raised # ""}
    IN  IF at = {} THEN "" ELSE made[CHOOSE i \in at : \A j \in at : i <= j].raised

\* lines 35-41: __init__ makes the plates (line 39) and then the samples
\* (lines 62-64), each in the order of groupby; raised names the exception
\* of the first constructor that raised
Experiment(plates, samples) ==
    [plates |-> plates, samples |-> samples,
     raised |-> IF FirstRaised(plates) # "" THEN FirstRaised(plates)
                ELSE FirstRaised(samples)]

\* the barcode of a second plate, sorted after Barcode
SecondBarcode == "S02000001"

\* the plates of an experiment: one barcode, the infection rate below or
\* inside its limits, or two barcodes, the first plate with a well of column
\* 12 outside the area limits or not, the second with the infection rate
\* below or inside its limits
ExperimentPlates ==
    {<<Plate(df, Barcode, "England2", infection)>> :
        df \in PlateFrames, infection \in {350, 500}}
    \cup
    {<<Plate(AreaFrame(0, 0, 500, 1500, c1, NormalArea), Barcode, "England2", 500),
       Plate(AreaFrame(0, 0, 500, 1500, NormalArea, NormalArea), SecondBarcode,
             "England2", infection)>> :
        c1 \in {500, NormalArea}, infection \in {350, 500}}

\* the samples of an experiment: one well, a positive control or not, its
\* fit failing or not
ExperimentSamples ==
    {<<Sample(well, SeriesRows(plate_mapping, [level \in 1..4 |-> <<70, 95>>]),
              "England2", fit)>> :
        well \in SampleNames, fit \in {f \in SampleFits : f.raises \/ f.mse = mse_upper_limit}}

\* Experiment(df) followed by get_failures_as_dataframe(); the first item
\* of the list of a failed plate without plate failures raises IndexError
CallGetFailures ==
    /\ op = "idle"
    /\ \E plates \in ExperimentPlates, samples \in ExperimentSamples :
        LET experiment == Experiment(plates, samples)
            failures_dict == get_failures_as_json(plates, samples)
            lists == failures_dict.plate_failures
        IN  /\ op' = "get_failures_as_dataframe"
            /\ args' = [plates |-> plates, samples |-> samples]
            /\ IF experiment.raised # ""
               THEN ret' = [raised |-> experiment.raised, df |-> {}]
               ELSE IF \E n \in DOMAIN lists : lists[n] = {}
               THEN ret' = [raised |-> "IndexError", df |-> {}]
               ELSE \E first \in [DOMAIN lists -> UNION {lists[n] : n \in DOMAIN lists}] :
                       /\ \A n \in DOMAIN first : first[n] \in lists[n]
                       /\ ret' = [raised |-> "",
                                  df |-> get_failures_as_dataframe(failures_dict, first)]

Next ==
    \/ CallHeuristicsDilutions
    \/ CallHampel
    \/ CallIntersect
    \/ CallHeuristicsCurve
    \/ CallCalcModelResults
    \/ CallSample
    \/ CallPlate
    \/ CallCheckInfection
    \/ CallAddFailure
    \/ CallWell384
    \/ CallGetFailures
    \/ Return

Spec == Init /\ [][Next]_vars

-----------------------------------------------------------------------------
(* main.py run and db_uploader.py DatabaseUploader: the upload of the        *)
(* results of one workflow and variant to the LIMS database.                 *)
(*                                                                           *)
(* In the specification SpecDb the three variables hold: op the step that    *)
(* run has reached, args the run in hand (its workflow, variant and session: *)
(* the rows and updates its transaction has made and not committed), ret the *)
(* committed database.  Runs are sequential.  The rows of a table are kept   *)
(* by their <<workflow_id, variant>>; every upload of a run inserts at least *)
(* one row, except upload_failures when there is no failure.  The field log  *)
(* of the database is the history of its commits, kept for the properties.   *)

Workflows == {191, 228}

DbVariants == {"England2", "B117", "B.1.617.2 (India)"}

\* the elements of a sequence
SeqRange(s) == {s[i] : i \in 1..Len(s)}

\* the largest NE_workflow_tracking.no_of_variants
MaxVariants == 2

\* the tables in the order run uploads to them (main.py 112-118)
UploadSteps ==
    <<"NE_raw_results", "NE_raw_index", "NE_normalized_results", "NE_final_results",
      "NE_failed_results", "NE_model_parameters", "NE_reporter_plate_status">>

\* a session without pending rows or updates
NoSession ==
    [rows |-> [t \in SeqRange(UploadSteps) |-> {}], complete |-> {}]

\* the database before the first run: empty result tables and one tracking
\* row per workflow
NewDatabase ==
    [rows |-> [t \in SeqRange(UploadSteps) |-> {}],
     tracking |-> [w \in Workflows |->
                      [no_of_variants |-> IF w = 191 THEN 1 ELSE MaxVariants,
                       status |-> "running", final_results_upload |-> FALSE]],
     log |-> {}]

\* session.query(table): the committed rows and the rows of the transaction
Query(db, session, table) == db.rows[table] \cup session.rows[table]

\* session.bulk_insert_mappings(table, rows), session.add(row)
bulk_insert_mappings(session, table, workflow_id, variant) ==
    [session EXCEPT !.rows[table] = @ \cup {<<workflow_id, variant>>}]

\* a variant of already_uploaded that looks for the rows in another table
already_uploaded_in_failures(db, session, workflow_id, variant) ==
    <<workflow_id, variant>> \in
        db.rows["NE_failed_results"] \cup session.rows["NE_failed_results"]

\* db_uploader.py 65-73
already_uploaded(db, session, workflow_id, variant) ==
    <<workflow_id, variant>> \in Query(db, session, "NE_final_results")

\* a variant of is_final_upload after its docstring: final when the variants
\* in the database are one short of the expected number
is_final_upload_one_short(db, session, workflow_id) ==
    LET expected == db.tracking[workflow_id]
        current_n_variants ==
            Cardinality({k[2] : k \in {q \in db.rows["NE_final_results"]
                                            \cup session.rows["NE_final_results"] :
                                        q[1] = workflow_id}})
    IN  IF current_n_variants > expected.no_of_variants THEN "RuntimeError"
        ELSE IF expected.no_of_variants - 1 = current_n_variants THEN "True"
        ELSE "False"

\* db_uploader.py 103-136: "True", "False", or the error raised
is_final_upload(db, session, workflow_id) ==
    LET expected == db.tracking[workflow_id]
        current_variants ==
            {k[2] : k \in {q \in Query(db, session, "NE_final_results") :
                              q[1] = workflow_id}}
        current_n_variants == Cardinality(current_variants)
        is_final == expected.no_of_variants = current_n_variants
    IN  IF current_n_variants > expected.no_of_variants THEN "RuntimeError"
        ELSE IF is_final THEN "True"
        ELSE "False"

\* db_uploader.py 357-371: the update is part of the transaction
update_workflow_tracking(session, workflow_id) ==
    [session EXCEPT !.complete = @ \cup {workflow_id}]

\* db_uploader.py 39-41: session.commit()
commit(db, session) ==
    [db EXCEPT
        !.rows = [t \in DOMAIN @ |-> @[t] \cup session.rows[t]],
        !.tracking = [w \in DOMAIN @ |->
                         IF w \in session.complete
                         THEN [@[w] EXCEPT !.status = "complete",
                                           !.final_results_upload = TRUE]
                         ELSE @[w]]]

\* a variant of rollback that flushes the rows inserted so far
rollback_flushes(db, session) ==
    [db EXCEPT !.rows = [t \in DOMAIN @ |-> @[t] \cup session.rows[t]]]

\* a run that ends without session.commit(): its transaction is rolled back
\* when the session is dropped
rollback(db, session) == db

InitDb ==
    /\ op = "idle"
    /\ args = [none |-> TRUE]
    /\ ret = NewDatabase

\* main.py 93-103: run for a workflow and a variant, with or without
\* failures to report; an already uploaded pair ends the run at once
RunStart ==
    /\ op = "idle"
    /\ \E workflow_id \in Workflows, variant \in DbVariants, failures \in BOOLEAN :
        LET run == [workflow_id |-> workflow_id, variant |-> variant,
                    failures |-> failures, step |-> 1, session |-> NoSession,
                    before |-> ret, outcome |-> "running"]
        IN  IF already_uploaded(ret, run.session, workflow_id, variant)
            THEN /\ op' = "run.returned"
                 /\ args' = [run EXCEPT !.outcome = "already uploaded"]
            ELSE /\ op' = "run.upload"
                 /\ args' = run
    /\ ret' = ret

\* main.py 112-118: the next upload; upload_failures inserts only when there
\* are failures (db_uploader.py 315)
RunUpload ==
    /\ op = "run.upload"
    /\ LET table == UploadSteps[args.step]
       IN  args' = [args EXCEPT
                       !.step = @ + 1,
                       !.session = IF table # "NE_failed_results" \/ args.failures
                                   THEN bulk_insert_mappings(@, table, args.workflow_id,
                                                             args.variant)
                                   ELSE @]
    /\ op' = IF args.step = Len(UploadSteps) THEN "run.is_final_upload" ELSE "run.upload"
    /\ ret' = ret

\* an upload raises (an assertion of db_uploader.py, an error of the
\* database): the exception leaves run before session.commit()
RunRaise ==
    /\ op = "run.upload"
    /\ op' = "run.raised"
    /\ args' = [args EXCEPT !.outcome = "Exception", !.session = NoSession]
    /\ ret' = rollback(ret, args.session)

\* main.py 119
RunIsFinalUpload ==
    /\ op = "run.is_final_upload"
    /\ LET is_final == is_final_upload(ret, args.session, args.workflow_id)
       IN  IF is_final = "RuntimeError"
           THEN /\ op' = "run.raised"
                /\ args' = [args EXCEPT !.outcome = "RuntimeError", !.session = NoSession]
                /\ ret' = rollback(ret, args.session)
           ELSE /\ op' = IF is_final = "True" THEN "run.update_workflow_tracking"
                         ELSE "run.commit"
                /\ UNCHANGED <<args, ret>>

\* main.py 120
RunUpdateWorkflowTracking ==
    /\ op = "run.update_workflow_tracking"
    /\ op' = "run.commit"
    /\ args' = [args EXCEPT !.session = update_workflow_tracking(@, args.workflow_id)]
    /\ ret' = ret

\* main.py 121; the log entry tells how many commits the pair has had, how
\* many variants the workflow has after this one, and whether this run
\* marked the workflow complete
RunCommit ==
    /\ op = "run.commit"
    /\ op' = "run.returned"
    /\ args' = [args EXCEPT !.outcome = "committed", !.session = NoSession]
    /\ LET db == commit(ret, args.session)
           entry == [workflow_id |-> args.workflow_id, variant |-> args.variant,
                     nth |-> 1 + Cardinality({e \in ret.log :
                                 /\ e.workflow_id = args.workflow_id
                                 /\ e.variant = args.variant}),
                     n_variants |-> Cardinality({k[2] : k \in
                                       {q \in db.rows["NE_final_results"] :
                                           q[1] = args.workflow_id}}),
                     marked |-> args.workflow_id \in args.session.complete]
       IN  ret' = [db EXCEPT !.log = @ \cup {entry}]

\* run has returned or raised; the next run may start
RunEnd ==
    /\ op \in {"run.returned", "run.raised"}
    /\ op' = "idle"
    /\ args' = [none |-> TRUE]
    /\ ret' = ret

NextDb ==
    \/ RunStart
    \/ RunUpload
    \/ RunRaise
    \/ RunIsFinalUpload
    \/ RunUpdateWorkflowTracking
    \/ RunCommit
    \/ RunEnd

SpecDb == InitDb /\ [][NextDb]_vars

-----------------------------------------------------------------------------
(* Concurrent executions of main.py run.  In the specification               *)
(* SpecConcurrent each execution has its own session; op[r] is the step the  *)
(* execution r has reached, args[r] its workflow, variant and session, ret   *)
(* the committed database.  A query of a session reads the rows committed    *)
(* at the time of the query and the rows of its own transaction; the steps   *)
(* of different executions interleave in any order.  Every execution is for  *)
(* the workflow that expects MaxVariants variants, and runs once; it has     *)
(* failures to upload or none, and an upload of it may raise.                *)

ConcurrentRuns == {1, 2}

ConcurrentWorkflow == CHOOSE w \in Workflows : NewDatabase.tracking[w].no_of_variants = MaxVariants

InitConcurrent ==
    /\ op = [r \in ConcurrentRuns |-> "idle"]
    /\ args = [r \in ConcurrentRuns |->
                  [workflow_id |-> ConcurrentWorkflow, variant |-> "",
                   failures |-> FALSE, step |-> 1,
                   session |-> NoSession, outcome |-> "not started"]]
    /\ ret = NewDatabase

\* main.py 93-103
SessionStart(r) ==
    /\ op[r] = "idle"
    /\ \E variant \in DbVariants, failures \in BOOLEAN :
        IF already_uploaded(ret, args[r].session, args[r].workflow_id, variant)
        THEN /\ op' = [op EXCEPT ![r] = "run.returned"]
             /\ args' = [args EXCEPT ![r].variant = variant,
                                     ![r].failures = failures,
                                     ![r].outcome = "already uploaded"]
        ELSE /\ op' = [op EXCEPT ![r] = "run.upload"]
             /\ args' = [args EXCEPT ![r].variant = variant,
                                     ![r].failures = failures,
                                     ![r].outcome = "running"]
    /\ ret' = ret

\* main.py 112-118: the next upload; upload_failures inserts only when there
\* are failures (db_uploader.py 315)
SessionUpload(r) ==
    /\ op[r] = "run.upload"
    /\ LET table == UploadSteps[args[r].step]
       IN  args' = [args EXCEPT
                       ![r].step = @ + 1,
                       ![r].session = IF table # "NE_failed_results" \/ args[r].failures
                                      THEN bulk_insert_mappings(@, table,
                                                                args[r].workflow_id,
                                                                args[r].variant)
                                      ELSE @]
    /\ op' = [op EXCEPT ![r] = IF args[r].step = Len(UploadSteps)
                               THEN "run.is_final_upload" ELSE "run.upload"]
    /\ ret' = ret

\* an upload raises (an assertion of db_uploader.py, an error of the
\* database): the exception leaves run before session.commit()
SessionRaise(r) ==
    /\ op[r] = "run.upload"
    /\ op' = [op EXCEPT ![r] = "run.raised"]
    /\ args' = [args EXCEPT ![r].outcome = "Exception", ![r].session = NoSession]
    /\ ret' = rollback(ret, args[r].session)

\* main.py 119
SessionIsFinalUpload(r) ==
    /\ op[r] = "run.is_final_upload"
    /\ LET is_final == is_final_upload(ret, args[r].session, args[r].workflow_id)
       IN  IF is_final = "RuntimeError"
           THEN /\ op' = [op EXCEPT ![r] = "run.raised"]
                /\ args' = [args EXCEPT ![r].outcome = "RuntimeError",
                                        ![r].session = NoSession]
                /\ ret' = rollback(ret, args[r].session)
           ELSE /\ op' = [op EXCEPT ![r] = IF is_final = "True"
                                           THEN "run.update_workflow_tracking"
                                           ELSE "run.commit"]
                /\ UNCHANGED <<args, ret>>

\* main.py 120
SessionUpdateWorkflowTracking(r) ==
    /\ op[r] = "run.update_workflow_tracking"
    /\ op' = [op EXCEPT ![r] = "run.commit"]
    /\ args' = [args EXCEPT
                   ![r].session = update_workflow_tracking(@, args[r].workflow_id)]
    /\ ret' = ret

\* main.py 121; the log entry is that of RunCommit
SessionCommit(r) ==
    /\ op[r] = "run.commit"
    /\ op' = [op EXCEPT ![r] = "run.returned"]
    /\ args' = [args EXCEPT ![r].outcome = "committed", ![r].session = NoSession]
    /\ LET db == commit(ret, args[r].session)
           entry == [workflow_id |-> args[r].workflow_id, variant |-> args[r].variant,
                     nth |-> 1 + Cardinality({e \in ret.log :
                                 /\ e.workflow_id = args[r].workflow_id
                                 /\ e.variant = args[r].variant}),
                     n_variants |-> Cardinality({k[2] : k \in
                                       {q \in db.rows["NE_final_results"] :
                                           q[1] = args[r].workflow_id}}),
                     marked |-> args[r].workflow_id \in args[r].session.complete]
       IN  ret' = [db EXCEPT !.log = @ \cup {entry}]

NextConcurrent ==
    \E r \in ConcurrentRuns :
        \/ SessionStart(r)
        \/ SessionUpload(r)
        \/ SessionRaise(r)
        \/ SessionIsFinalUpload(r)
        \/ SessionUpdateWorkflowTracking(r)
        \/ SessionCommit(r)

SpecConcurrent == InitConcurrent /\ [][NextConcurrent]_vars

-----------------------------------------------------------------------------
(* The titration pipelines: main.py run_titration and titration/main.py run. *)
(* In the specification SpecTitration ret is the committed database: the     *)
(* <<workflow_id, variant>> keys with titration result rows and the keys     *)
(* whose titration tracking row is complete.  Each execution has its own     *)
(* session: op[r] is the statement the execution r has reached, args[r] its  *)
(* pipeline, workflow, variant and session.  The statements of different     *)
(* executions interleave in any order; an execution runs once.  The          *)
(* database is the LIMS database, which other executions have written        *)
(* before: it starts with the titration results of any set of pairs.         *)

TitrationRuns == {1, 2}

\* the classes db_models.py defines; the read of any other name of the
\* module raises AttributeError
DbModels ==
    {"NE_workflow_tracking", "NE_master_RF_plate", "NE_raw_index", "NE_raw_results",
     "NE_normalized_results", "NE_final_results", "NE_failed_results",
     "NE_model_parameters", "NE_assay_plate_tracker_384", "NE_available_strains",
     "NE_reporter_plate_status", "NE_titration_workflow_tracking",
     "NE_virus_titration_normalised_results", "NE_virus_titration_model_parameters",
     "NE_virus_titration_final_results"}

\* a session without pending rows or updates, and a database without rows
TitrationDatabase == [results |-> {}, complete |-> {}]

\* the databases an execution may find
TitrationDatabases ==
    {[results |-> keys, complete |-> keys] : keys \in SUBSET (Workflows \X DbVariants)}

\* db_uploader.py 43-73 with titration=True: line 65 reads
\* db_models.NE_virus_titration_results before the query
already_uploaded_titration(db, session, workflow_id, variant) ==
    IF "NE_virus_titration_results" \notin DbModels THEN "AttributeError"
    ELSE IF <<workflow_id, variant>> \in db.results \cup session.results THEN "True"
    ELSE "False"

\* db_uploader.py 392-408: line 406 reads db_models.NE_virus_titration_results
upload_titration_results(session, workflow_id, variant) ==
    IF "NE_virus_titration_results" \notin DbModels
    THEN [raised |-> "AttributeError", session |-> session]
    ELSE [raised |-> "",
          session |-> [session EXCEPT !.results = @ \cup {<<workflow_id, variant>>}]]

\* db_uploader.py 410-432
update_titration_workflow_tracking(session, workflow_id, variant) ==
    [session EXCEPT !.complete = @ \cup {<<workflow_id, variant>>}]

\* titration/db_uploader.py 16-21: TitrationDatabaseUploader.already_uploaded
titration_already_uploaded(db, workflow_id) == "NotImplementedError"

\* titration/db_uploader.py 23-130: the uploads of titration/main.py 37-39,
\* in that order
TitrationUploadSteps ==
    <<"NE_virus_titration_normalised_results", "NE_virus_titration_final_results",
      "NE_virus_titration_model_parameters">>

\* titration/db_uploader.py 132-156: every tracking row of the workflow
titration_update_workflow_tracking(session, workflow_id) ==
    [session EXCEPT !.complete = @ \cup {<<workflow_id, v>> : v \in DbVariants}]

\* session.commit()
titration_commit(db, session) ==
    [results |-> db.results \cup session.results,
     complete |-> db.complete \cup session.complete]

InitTitration ==
    /\ op = [r \in TitrationRuns |-> "idle"]
    /\ args = [r \in TitrationRuns |->
                  [pipeline |-> "", workflow_id |-> 0, variant |-> "", step |-> 1,
                   session |-> TitrationDatabase, before |-> TitrationDatabase,
                   outcome |-> "not started"]]
    /\ ret \in TitrationDatabases

\* the execution r has ended with an exception: its session is dropped
TitrationRaised(r, exception) ==
    /\ op' = [op EXCEPT ![r] = "run.raised"]
    /\ args' = [args EXCEPT ![r].outcome = exception, ![r].session = TitrationDatabase]
    /\ ret' = ret

\* main.py 148-165: run_titration, a statement at a time; the analysis of
\* lines 159-161 may raise
RunTitration(r) ==
    IF op[r] = "idle"
    THEN \E workflow_id \in Workflows, variant \in DbVariants :
            LET run == [args[r] EXCEPT !.pipeline = "main.run_titration",
                                       !.workflow_id = workflow_id,
                                       !.variant = variant, !.before = ret,
                                       !.outcome = "running"]
                uploaded == already_uploaded_titration(ret, run.session, workflow_id,
                                                       variant)
            IN  /\ op' = [op EXCEPT ![r] = IF uploaded = "AttributeError" THEN "run.raised"
                                           ELSE IF uploaded = "True" THEN "run.returned"
                                           ELSE "run_titration.analysis"]
                /\ args' = [args EXCEPT ![r] =
                               IF uploaded = "AttributeError"
                               THEN [run EXCEPT !.outcome = "AttributeError"]
                               ELSE IF uploaded = "True"
                               THEN [run EXCEPT !.outcome = "already uploaded"]
                               ELSE run]
                /\ ret' = ret
    ELSE IF op[r] = "run_titration.analysis"
    THEN \E raises \in BOOLEAN :
            IF raises THEN TitrationRaised(r, "Exception")
            ELSE /\ op' = [op EXCEPT ![r] = "run_titration.upload"]
                 /\ UNCHANGED <<args, ret>>
    ELSE IF op[r] = "run_titration.upload"
    THEN LET upload == upload_titration_results(args[r].session, args[r].workflow_id,
                                                args[r].variant)
         IN  IF upload.raised # ""
             THEN TitrationRaised(r, upload.raised)
             ELSE /\ op' = [op EXCEPT ![r] = "run_titration.update"]
                  /\ args' = [args EXCEPT ![r].session = upload.session]
                  /\ ret' = ret
    ELSE IF op[r] = "run_titration.update"
    THEN /\ op' = [op EXCEPT ![r] = "run_titration.commit"]
         /\ args' = [args EXCEPT ![r].session =
                        update_titration_workflow_tracking(@, args[r].workflow_id,
                                                           args[r].variant)]
         /\ ret' = ret
    ELSE /\ op[r] = "run_titration.commit"
         /\ op' = [op EXCEPT ![r] = "run.returned"]
         /\ args' = [args EXCEPT ![r].outcome = "committed",
                                 ![r].session = TitrationDatabase]
         /\ ret' = titration_commit(ret, args[r].session)

\* titration/main.py 26-41: run, a statement at a time; line 30 calls
\* already_uploaded, and no return follows the print of line 31
TitrationRun(r) ==
    IF op[r] = "idle"
    THEN \E workflow_id \in Workflows, variant \in DbVariants :
            LET run == [args[r] EXCEPT !.pipeline = "titration.main.run",
                                       !.workflow_id = workflow_id,
                                       !.variant = variant, !.before = ret,
                                       !.outcome = "running"]
                raises == titration_already_uploaded(ret, workflow_id)
                              = "NotImplementedError"
            IN  /\ op' = [op EXCEPT ![r] = IF raises THEN "run.raised"
                                           ELSE "titration.run.upload"]
                /\ args' = [args EXCEPT ![r] =
                               IF raises THEN [run EXCEPT !.outcome = "NotImplementedError"]
                               ELSE run]
                /\ ret' = ret
    ELSE IF op[r] = "titration.run.upload"
    THEN /\ op' = [op EXCEPT ![r] = IF args[r].step = Len(TitrationUploadSteps)
                                    THEN "titration.run.update"
                                    ELSE "titration.run.upload"]
         /\ args' = [args EXCEPT
                        ![r].step = @ + 1,
                        ![r].session.results =
                            @ \cup {<<args[r].workflow_id, args[r].variant>>}]
         /\ ret' = ret
    ELSE IF op[r] = "titration.run.update"
    THEN /\ op' = [op EXCEPT ![r] = "titration.run.commit"]
         /\ args' = [args EXCEPT ![r].session =
                        titration_update_workflow_tracking(@, args[r].workflow_id)]
         /\ ret' = ret
    ELSE /\ op[r] = "titration.run.commit"
         /\ op' = [op EXCEPT ![r] = "run.returned"]
         /\ args' = [args EXCEPT ![r].outcome = "committed",
                                 ![r].session = TitrationDatabase]
         /\ ret' = titration_commit(ret, args[r].session)

NextTitration ==
    \E r \in TitrationRuns :
        \/ RunTitration(r)
        \/ TitrationRun(r)

SpecTitration == InitTitration /\ [][NextTitration]_vars

-----------------------------------------------------------------------------
(* Properties.  The terms of a property are computed from the arguments of  *)
(* the call with the definitions of this section, not with the operators    *)
(* that model the code.                                                     *)

CallOf(name) == op = name

\* the rows of dilution level l (1 = least dilute) of a series
LevelRows(group, l) ==
    {i \in 1..Len(group) : group[i].Dilution \in {plate_mapping[l], test_dilutions[l]}}

LevelPresent(group, l) == LevelRows(group, l) # {}

PresentLevels(group) == {l \in 1..4 : LevelPresent(group, l)}

RECURSIVE SumOfRows(_, _)
SumOfRows(group, I) ==
    IF I = {} THEN 0
    ELSE LET i == CHOOSE j \in I : TRUE IN group[i].Pct + SumOfRows(group, I \ {i})

\* the replicate average of level l compared with a number t
LevelAvgLe(group, l, t) ==
    SumOfRows(group, LevelRows(group, l)) <= t * Cardinality(LevelRows(group, l))

LevelAvgGt(group, l, t) ==
    SumOfRows(group, LevelRows(group, l)) > t * Cardinality(LevelRows(group, l))

LevelAvgLt(group, l, t) ==
    SumOfRows(group, LevelRows(group, l)) < t * Cardinality(LevelRows(group, l))

EveryLevelLe(group, t) == \A l \in PresentLevels(group) : LevelAvgLe(group, l, t)

\* the levels that rules 2 and 3 of calc_heuristics_dilutions need: level 3
\* with level 4 or level 2, and level 1 or level 2
EnoughLevels(group) ==
    /\ LevelPresent(group, 3)
    /\ LevelPresent(group, 4) \/ LevelPresent(group, 2)
    /\ LevelPresent(group, 1) \/ LevelPresent(group, 2)

\* C4 as stated: for every dilution series, whatever levels are present, in
\* which the replicate average of every present level is <= threshold,
\* calc_heuristics_dilutions returns the "complete inhibition" code.
C4_complete_any_levels ==
    (CallOf("calc_heuristics_dilutions") /\ args.group # <<>>
        /\ EveryLevelLe(args.group, threshold))
    => ret.value = Some(0 - 200)

\* C4 as amended: for every non-empty series in which the replicate average
\* of every present level is <= threshold, calc_heuristics_dilutions returns
\* "complete inhibition" when DILUTION_3 is present with DILUTION_4 or
\* DILUTION_2 and DILUTION_1 or DILUTION_2 is present (so whenever all four
\* levels are present), and "failed to fit model" otherwise.
C4_complete_enough_levels ==
    (CallOf("calc_heuristics_dilutions") /\ args.group # <<>>
        /\ EveryLevelLe(args.group, threshold))
    => ret.value = IF EnoughLevels(args.group) THEN Some(0 - 200) ELSE Some(0 - 999)

\* a series with replicates, one level missing and every average <= threshold
\* (one of them equal to it), classified "complete inhibition"
C4_witness ==
    /\ CallOf("calc_heuristics_dilutions")
    /\ EveryLevelLe(args.group, threshold)
    /\ PresentLevels(args.group) = {1, 3, 4}
    /\ Cardinality(LevelRows(args.group, 4)) = 2
    /\ \E l \in {1, 3, 4} : ~LevelAvgLt(args.group, l, threshold)
    /\ ret.value = Some(0 - 200)

\* the series of C5: level 1 present with an average strictly between the
\* thresholds, every other present level above weak_threshold
WeakSeries(group) ==
    /\ LevelPresent(group, 1)
    /\ LevelAvgGt(group, 1, threshold)
    /\ LevelAvgLt(group, 1, weak_threshold)
    /\ \A l \in PresentLevels(group) \ {1} : LevelAvgGt(group, l, weak_threshold)

\* C5: a series whose least dilute level averages strictly between threshold
\* and weak_threshold and whose other present levels all average above
\* weak_threshold is classified "weak inhibition", whichever more dilute
\* levels are present.
C5_weak_inhibition ==
    (CallOf("calc_heuristics_dilutions") /\ WeakSeries(args.group))
    => ret.value = Some(0 - 400)

\* such a series with the two most dilute levels missing, where rule 2 had
\* set "failed to fit model"
C5_witness ==
    /\ CallOf("calc_heuristics_dilutions")
    /\ WeakSeries(args.group)
    /\ PresentLevels(args.group) = {1, 2}
    /\ ret.value = Some(0 - 400)

EveryLevelGt(group, t) == \A l \in PresentLevels(group) : LevelAvgGt(group, l, t)

LevelBetween(group, l) ==
    LevelAvgGt(group, l, threshold) /\ LevelAvgLt(group, l, weak_threshold)

\* no rule of calc_heuristics_dilutions fires: some level is above
\* threshold; rule 2 meets a level above threshold before it meets a missing
\* one; the level rule 3 looks at is present and not between the thresholds;
\* some level is at or below weak_threshold
NoRuleFires(group) ==
    /\ \E l \in PresentLevels(group) : LevelAvgGt(group, l, threshold)
    /\ \/ LevelPresent(group, 4) /\ LevelAvgGt(group, 4, threshold)
       \/ LevelPresent(group, 3) /\ LevelAvgGt(group, 3, threshold)
       \/ /\ ~LevelPresent(group, 4)
          /\ LevelPresent(group, 3)
          /\ LevelPresent(group, 2) /\ LevelAvgGt(group, 2, threshold)
    /\ \/ LevelPresent(group, 1) /\ ~LevelBetween(group, 1)
       \/ /\ ~LevelPresent(group, 1)
          /\ LevelPresent(group, 2) /\ ~LevelBetween(group, 2)
    /\ \E l \in PresentLevels(group) : LevelAvgLe(group, l, weak_threshold)

\* C6: a series in which every present level averages above weak_threshold
\* is classified "no inhibition", also when levels are missing and an
\* earlier rule had set "failed to fit model"; a series for which no rule
\* fires gets None.
C6_no_inhibition ==
    CallOf("calc_heuristics_dilutions")
    => /\ EveryLevelGt(args.group, weak_threshold) => ret.value = Some(0 - 600)
       /\ NoRuleFires(args.group) <=> ret.value = None

\* every level above weak_threshold with levels 3 and 4 missing: rule 2 sets
\* "failed to fit model" and the last rule replaces it
C6_witness ==
    /\ CallOf("calc_heuristics_dilutions")
    /\ EveryLevelGt(args.group, weak_threshold)
    /\ PresentLevels(args.group) = {1, 2}
    /\ ret.value = Some(0 - 600)

\* the grid indices (1-based) after which the sample moves to another side
\* of the level: above it, on it or below it
Side(v, level) == IF v > level THEN "above" ELSE IF v < level THEN "below" ELSE "on"

SignChanges(curve, level) ==
    {i \in 1..(Len(curve) - 1) : Side(curve[i], level) # Side(curve[i + 1], level)}

\* C8: intersect_between_curves returns error = False, with the x and y of
\* one grid sample (the sample before the change), if and only if the sign
\* of (target - curve) changes between consecutive samples at exactly one
\* index; otherwise it returns error = True with x and y NaN.
C8_one_sign_change ==
    CallOf("intersect_between_curves")
    => LET changes == SignChanges(args.curve, args.intersect)
       IN  IF Cardinality(changes) = 1
           THEN \E i \in changes :
                    /\ ret.error = FALSE
                    /\ ret.x = (GridN - 1) * args.x_min + (i - 1) * (args.x_max - args.x_min)
                    /\ ret.y = args.curve[i]
           ELSE ret.error = TRUE /\ IsNaN(ret.x) /\ IsNaN(ret.y)

\* a curve with three sign changes: an error, no point
C8_witness ==
    /\ CallOf("intersect_between_curves")
    /\ Cardinality(SignChanges(args.curve, args.intersect)) >= 2
    /\ args.curve[1] > 50 /\ args.curve[GridN] < 50
    /\ ret.error = TRUE

NonIncreasing(curve) == \A i \in 1..(Len(curve) - 1) : curve[i] >= curve[i + 1]

StrictlyDecreasing(curve) == \A i \in 1..(Len(curve) - 1) : curve[i] > curve[i + 1]

\* the curves of C9: decreasing along the grid from above the level to below
\* it, at most one sample on the level
CrossesOnce(curve, level) ==
    /\ NonIncreasing(curve)
    /\ curve[1] > level
    /\ curve[Len(curve)] < level
    /\ Cardinality({i \in 1..Len(curve) : curve[i] = level}) <= 1

\* C9 as stated: for every sampled curve that decreases along the grid from
\* above 50 to below 50, a curve with one sample equal to 50 included,
\* intersect_between_curves returns a point with error = False.  (A strictly
\* decreasing curve with a sample on the level refutes it.)
C9_decreasing_crosses_once ==
    (/\ CallOf("intersect_between_curves")
     /\ CrossesOnce(args.curve, args.intersect)
     /\ StrictlyDecreasing(args.curve))
    => ret.error = FALSE /\ ~IsNaN(ret.x) /\ ~IsNaN(ret.y)

\* C10: for every NaN-free monotonic sequence x and every half-width
\* k >= 1, hampel(x, k, 3) returns no outlier index.
C10_hampel_monotonic ==
    (/\ CallOf("hampel")
     /\ \A i \in 1..Len(args.x) : ~IsNaN(args.x[i])
     /\ \/ NonIncreasing(args.x)
        \/ \A i \in 1..(Len(args.x) - 1) : args.x[i] <= args.x[i + 1]
     /\ args.k >= 1 /\ args.t0 = 3)
    => ret.indices = <<>>

\* a monotonic sequence that is not constant, long enough for the loop to
\* visit an index
C10_witness ==
    /\ CallOf("hampel")
    /\ \A i \in 1..Len(args.x) : ~IsNaN(args.x[i])
    /\ \A i \in 1..(Len(args.x) - 1) : args.x[i] <= args.x[i + 1]
    /\ Len(args.x) >= 2 * args.k + 2
    /\ args.x[1] < args.x[Len(args.x)]
    /\ ret.indices = <<>>

FourCodes == {0 - 999, 0 - 600, 0 - 400, 0 - 200}

NoneOrCode(v) == v = None \/ \E c \in FourCodes : v = Some(c)

\* 1 / (a sample of the grid of calc_model_results), on the grid scale
GridReciprocals ==
    {0 - ((GridN - 1) * XMinLog + j * (XMaxLog - XMinLog)) : j \in 0..(GridN - 1)}

\* C1: the result field of calc_model_results is a strictly positive number
\* (the reciprocal of a grid sample) or one of the four codes -999, -600,
\* -400, -200; calc_heuristics_dilutions and calc_heuristics_curve return
\* None or one of the four codes.
C1_result_or_code ==
    /\ CallOf("calc_model_results")
       => \/ ret.value.result.kind = "ic50" /\ ret.value.result.value \in GridReciprocals
          \/ ret.value.result.kind = "code" /\ ret.value.result.value \in FourCodes
    /\ CallOf("calc_heuristics_dilutions") => NoneOrCode(ret.value)
    /\ CallOf("calc_heuristics_curve") => NoneOrCode(ret.value)

\* a call of calc_model_results that returns an IC50
C1_witness ==
    /\ CallOf("calc_model_results")
    /\ ret.locals.intersect_called
    /\ ret.value.result.kind = "ic50"

\* C2: in calc_model_results the fit is attempted only when
\* calc_heuristics_dilutions, given the sorted series without its missing
\* values, returned None; when it returns a code the output is fit_method
\* "heuristic", that code, model_params None and mean_squared_error None.
C2_heuristic_first ==
    CallOf("calc_model_results")
    => LET h == calc_heuristics_dilutions(SortByDilution(DropNa(args.df)),
                                          args.threshold, args.weak_threshold)
       IN  /\ ret.locals.heuristic = h
           /\ ret.locals.fit_attempted => h = None
           /\ h # None => ret.value = [fit_method |-> "heuristic",
                                       result |-> Code(h[1]),
                                       model_params |-> None,
                                       mean_squared_error |-> None]

\* a series with a missing value for which the heuristic gives a code
C2_witness ==
    /\ CallOf("calc_model_results")
    /\ \E i \in 1..Len(args.df) : IsNaN(args.df[i].Pct)
    /\ ret.locals.heuristic # None
    /\ ~ret.locals.fit_attempted
    /\ ret.value.fit_method = "heuristic"

\* C3: when the optimizer raises, calc_model_results returns fit_method
\* "model fit", result -999, model_params None and mean_squared_error None;
\* when the fit succeeds and the intersection finder is called on a curve
\* without exactly one sign change, it returns fit_method "model fit",
\* result -999 and model_params None.  Both calls return.
C3_fit_failure ==
    CallOf("calc_model_results")
    => /\ (ret.locals.fit_attempted /\ args.optimizer.raises)
          => ret.value = [fit_method |-> "model fit",
                          result |-> Code(0 - 999),
                          model_params |-> None,
                          mean_squared_error |-> None]
       /\ (/\ ret.locals.intersect_called
           /\ Cardinality(SignChanges(args.optimizer.y_fitted, 50)) # 1)
          => /\ ret.value.fit_method = "model fit"
             /\ ret.value.result = Code(0 - 999)
             /\ ret.value.model_params = None

\* a fit that succeeds, passes the curve heuristic and has no crossing
C3_witness ==
    /\ CallOf("calc_model_results")
    /\ ~args.optimizer.raises
    /\ ret.locals.intersect_called
    /\ ret.locals.intersect.error
    /\ ret.value.result = Code(0 - 999)
    /\ ret.value.model_params = None

\* the observed dilutions: those of the rows with a value
Observed(df) == {df[i].Dilution : i \in {j \in 1..Len(df) : ~IsNaN(df[j].Pct)}}

\* 1 / max(observed) and 1 / min(observed), on the grid scale
LowestIc50(df) ==
    0 - (GridN - 1) * Log10Dilution(CHOOSE d \in Observed(df) : \A e \in Observed(df) : e <= d)

HighestIc50(df) ==
    0 - (GridN - 1) * Log10Dilution(CHOOSE d \in Observed(df) : \A e \in Observed(df) : e >= d)

\* C7: a positive result r of calc_model_results has
\* 1/max(observed) <= r <= 1/min(observed); the reciprocal of an
\* intersection below 1/max(observed) is returned as -400, one above
\* 1/min(observed) as -200, one inside the range unchanged.
C7_within_tested_range ==
    CallOf("calc_model_results")
    => /\ ret.value.result.kind = "ic50"
          => /\ LowestIc50(args.df) <= ret.value.result.value
             /\ ret.value.result.value <= HighestIc50(args.df)
       /\ (ret.locals.intersect_called /\ ~ret.locals.intersect.error)
          => LET r == 0 - ret.locals.intersect.x
             IN  ret.value.result =
                     IF r < LowestIc50(args.df) THEN Code(0 - 400)
                     ELSE IF r > HighestIc50(args.df) THEN Code(0 - 200)
                     ELSE Ic50(r)

\* an intersection above the range of a series that lost a level: recast
C7_witness ==
    /\ CallOf("calc_model_results")
    /\ ret.locals.intersect_called /\ ~ret.locals.intersect.error
    /\ Cardinality(Observed(args.df)) < Len(args.df)
    /\ 0 - ret.locals.intersect.x > HighestIc50(args.df)
    /\ ret.value.result = Code(0 - 200)

-----------------------------------------------------------------------------
(* Sample: the quality checks of Sample.__init__ *)

\* the failures of a collection whose reason is of one kind
FailuresOfKind(failures, kind) == {f \in failures : f.reason.kind = kind}

\* the rows of one dilution level
RowsAt(data, d) == {i \in 1..Len(data) : data[i].Dilution = d}

\* the levels with exactly two replicates whose values differ by at least
\* the limit
DiscordantLevels(data, limit) ==
    {d \in {data[i].Dilution : i \in 1..Len(data)} :
        /\ Cardinality(RowsAt(data, d)) = 2
        /\ \E i, j \in RowsAt(data, d) :
            /\ i # j
            /\ ~IsNaN(data[i].Pct) /\ ~IsNaN(data[j].Pct)
            /\ data[i].Pct - data[j].Pct >= limit}

\* the checks that Sample.__init__ entered after check_positive_control
RanChecks == {ret.ran[i] : i \in 1..Len(ret.ran)}

\* C11: a sample whose check_duplicate_differences was run has exactly one
\* "2 or more duplicates differ by >=" well failure if and only if its
\* classification is neither "no inhibition" nor "failed to fit model" and at
\* least two levels with exactly two replicates differ by at least the
\* threshold; it never has more than one, and levels with another number of
\* replicates are passed over without error
C11_duplicate_differences ==
    (op = "Sample" /\ "check_duplicate_differences" \in RanChecks) =>
        LET found == FailuresOfKind(ret.failures, "2 or more duplicates differ by >=")
        IN  /\ Cardinality(found) <= 1
            /\ Cardinality(found) = 1 <=>
                  /\ ret.ic50_pretty \notin {"no inhibition", "failed to fit model"}
                  /\ Cardinality(DiscordantLevels(args.data, duplicate_difference)) >= 2
            /\ \A f \in found : f.well = Chars(args.sample_name)
                                  /\ f.reason.detail = <<duplicate_difference>>

\* C12: a sample carries a "model MSE >" well failure if and only if its
\* mean_squared_error is not None and is strictly greater than
\* mse_upper_limit, and, once check_for_model_fit_failure was run, carries
\* the "failed to fit model to data points" well failure if and only if its
\* result is the -999 code
C12_mse_and_fit_failures ==
    op = "Sample" =>
        LET high == FailuresOfKind(ret.failures, "model MSE >")
            unfit == FailuresOfKind(ret.failures, "failed to fit model to data points")
        IN  /\ high # {} <=> /\ ret.mean_squared_error # None
                             /\ ret.mean_squared_error[1] > mse_upper_limit
            /\ "check_for_model_fit_failure" \in RanChecks =>
                  (unfit # {} <=> ret.ic50 = Code(-999))
            /\ \A f \in high \cup unfit :
                  f.type = "well_failure" /\ f.well = Chars(args.sample_name)
            /\ \A f \in high : f.reason.detail = <<mse_upper_limit, ret.mean_squared_error[1]>>

\* a result outside [low, high]: a code is a negative number, below any low
OutsideRange(ic50, range) ==
    \/ ic50.kind = "code"
    \/ ic50.kind = "ic50" /\ (ic50.value < range.low \/ ic50.value > range.high)

\* C13: a positive-control failure is added only to a sample named in
\* POSITIVE_CONTROL_WELLS; for such a sample of a variant with a registered
\* range, once check_positive_control was reached, it is added if and only
\* if ic50 < low or ic50 > high, so with any of the four result codes it is
\* always added
C13_positive_control ==
    op = "Sample" =>
        LET found == FailuresOfKind(ret.failures, "positive control failure")
            control == args.sample_name \in POSITIVE_CONTROL_WELLS
            registered == args.variant \in RegisteredVariants
        IN  /\ found # {} => control
            /\ (control /\ registered /\ ret.is_positive_control) =>
                  /\ found # {} <=> OutsideRange(ret.ic50, positive_control_ic50[args.variant])
                  /\ ret.ic50.kind = "code" => found # {}
                  /\ Cardinality(found) <= 1
                  /\ \A f \in found : f.well = Chars(args.sample_name)

\* C14: for a positive-control sample whose variant has no registered range,
\* check_positive_control adds no failure and raises no error, and the
\* remaining checks of the sample still run
C14_unregistered_variant_skipped ==
    (/\ op = "Sample"
     /\ args.sample_name \in POSITIVE_CONTROL_WELLS
     /\ args.variant \notin RegisteredVariants) =>
        /\ ret.raised = ""
        /\ FailuresOfKind(ret.failures, "positive control failure") = {}
        /\ ret.ran = <<"check_duplicate_differences", "check_for_model_fit_failure">>

-----------------------------------------------------------------------------
(* Plate: the quality checks of Plate.__init__ *)

\* the median of the virus-only wells is outside the range of the variant:
\* [low, high] with an override, [low, +infinity) without
InfectionOutside(variant, infection) ==
    IF variant \in RegisteredVariants
    THEN infection < infection_rate_low \/ infection > infection_rate_high
    ELSE infection < infection_rate_low

\* the wells whose area, over the median area of the plate, is below the low
\* limit or above the high limit
FlaggedWells(df) ==
    LET m2 == Median2([i \in 1..Len(df) |-> df[i].area])
    IN  {df[i].Well : i \in {j \in 1..Len(df) :
            \/ 2 * Thousand * df[j].area < low_cells_image_region_area_low * m2
            \/ 2 * Thousand * df[j].area > low_cells_image_region_area_high * m2}}

\* the sequences that hold every element of a set once
Orderings(S) == {names \in [1..Cardinality(S) -> S] : SeqRange(names) = S}

CellAreaFailures(plate) ==
    {f \in plate.plate_failures : f.reason = FailureAttr("CELL_IMAGE_AREA_FAILURE_REASON")}

\* C15: every flagged well of a plate whose infection check passed gets a
\* well failure (once check_infection has returned); a cell-area plate
\* failure is recorded, with plate_failed set, if and only if a flagged well
\* is in column 12, and it names exactly the flagged wells of column 12; with
\* no flagged well in column 12 and at most 8 flagged wells, outside_image_area
\* adds well failures only and leaves plate_failed as check_infection left it
C15_outside_image_area ==
    (op = "Plate" /\ ~InfectionOutside(args.variant, args.infection)) =>
        LET flagged == FlaggedWells(args.df)
            area == CellAreaFailures(ret)
        IN  /\ {f.well : f \in ret.well_failures} = {Chars(w) : w \in flagged}
            /\ Cardinality(ret.well_failures) = Cardinality(flagged)
            /\ \A f \in ret.well_failures :
                  f.type = "well_failure"
                  /\ f.reason = FailureAttr("CELL_REGION_FAILURE_REASON")
            /\ area # {} <=> flagged \cap Column12 # {}
            /\ Cardinality(area) <= 1
            /\ \A f \in area :
                  /\ f.type = "plate_failure"
                  /\ f.wells \in {JoinWells(names) : names \in Orderings(flagged \cap Column12)}
                  /\ ret.plate_failed
            /\ (flagged \cap Column12 = {} /\ Cardinality(flagged) <= DapiLimit) =>
                  /\ \A f \in ret.plate_failures :
                        f.reason.kind = "virus-only infection median outside range"
                  /\ ret.plate_failed <=> ret.plate_failures # {}

InfectionFailures(plate) ==
    {f \in plate.plate_failures :
        f.reason.kind = "virus-only infection median outside range"}

\* C16: check_infection sets plate_failed and adds one plate failure if and
\* only if the virus-only infection median is outside the range of the
\* variant of the plate; without a range of its own the variant gets
\* [0.4, +infinity), so the check fails exactly when the median is below 0.4
C16_check_infection ==
    /\ op = "check_infection" =>
          LET outside == InfectionOutside(args.variant, args.infection)
          IN  /\ ret.plate_failed <=> outside
              /\ Cardinality(ret.plate_failures) = (IF outside THEN 1 ELSE 0)
              /\ ret.plate_failures = InfectionFailures(ret)
              /\ \A f \in ret.plate_failures :
                    /\ f.type = "plate_failure" /\ f.plate = Barcode
                    /\ f.wells = JoinWells(VIRUS_ONLY_WELLS)
                    /\ f.reason.detail[1] = args.infection
    /\ op = "Plate" =>
          LET outside == InfectionOutside(args.variant, args.infection)
          IN  /\ Cardinality(InfectionFailures(ret)) = (IF outside THEN 1 ELSE 0)
              /\ outside => ret.plate_failed

-----------------------------------------------------------------------------
(* failure collections *)

\* C17: a failure collection holds no two failures with the same plate,
\* well(s) and reason: adding a failure equal in value to one already in the
\* collection leaves a single such entry
C17_deduplicated_by_value ==
    op = "failures.add" =>
        \A f, g \in ret.failures : FailureValue(f) = FailureValue(g) => f = g

-----------------------------------------------------------------------------
(* The upload to the database: properties of SpecDb *)

\* the keys <<workflow_id, variant>> of the model
UploadKeys == Workflows \X DbVariants

\* the variants of a workflow with rows in the final results of a database
VariantsIn(db, w) == {v \in DbVariants : <<w, v>> \in db.rows["NE_final_results"]}

InRun == op \in {"run.upload", "run.is_final_upload", "run.update_workflow_tracking",
                 "run.commit", "run.returned", "run.raised"}

\* C18: a run for a workflow and variant that already have rows in the final
\* results returns normally and leaves the database as it was, with nothing
\* inserted, updated or committed; so no pair is ever committed twice
C18_already_uploaded_unchanged ==
    /\ (InRun /\ args.variant \in VariantsIn(args.before, args.workflow_id)) =>
          /\ op = "run.returned"
          /\ args.outcome = "already uploaded"
          /\ args.session = NoSession
          /\ ret = args.before
    /\ \A e \in ret.log : e.nth = 1
    /\ \A e, f \in ret.log :
          (e.workflow_id = f.workflow_id /\ e.variant = f.variant) => e = f

\* a second run for an uploaded pair has returned
C18_witness ==
    /\ op = "run.returned"
    /\ args.outcome = "already uploaded"
    /\ \E e \in ret.log : e.workflow_id = args.workflow_id /\ e.variant = args.variant

\* C19: the workflow is marked complete (status "complete",
\* final_results_upload set) by exactly the commit that brings its number of
\* uploaded variants to no_of_variants, and by no other; a run that would
\* bring the number above it raises RuntimeError in is_final_upload and
\* leaves the database as it was
C19_marked_complete_by_final_run ==
    /\ \A e \in ret.log :
          /\ e.n_variants <= ret.tracking[e.workflow_id].no_of_variants
          /\ e.marked <=> e.n_variants = ret.tracking[e.workflow_id].no_of_variants
    /\ \A w \in Workflows :
          /\ Cardinality(VariantsIn(ret, w)) <= ret.tracking[w].no_of_variants
          /\ ret.tracking[w].status = "complete" <=>
                Cardinality(VariantsIn(ret, w)) = ret.tracking[w].no_of_variants
          /\ ret.tracking[w].final_results_upload <=> ret.tracking[w].status = "complete"
          /\ Cardinality({e \in ret.log : e.workflow_id = w /\ e.marked}) <= 1
    /\ (InRun /\ args.outcome = "RuntimeError") =>
          /\ op = "run.raised"
          /\ ret = args.before
    /\ (op \in {"run.update_workflow_tracking", "run.commit", "run.returned"}
        /\ args.outcome # "already uploaded") =>
          Cardinality(VariantsIn(args.before, args.workflow_id))
              < args.before.tracking[args.workflow_id].no_of_variants

\* a workflow of two variants: the first commit did not mark it, the second did
C19_witness ==
    \E e, f \in ret.log :
        /\ e.workflow_id = f.workflow_id
        /\ ~e.marked /\ f.marked
        /\ e.n_variants < f.n_variants
        /\ ret.tracking[e.workflow_id].status = "complete"

\* a run for one variant more than expected has raised RuntimeError
C19_witness_too_many ==
    /\ op = "run.raised" /\ args.outcome = "RuntimeError"
    /\ ret.tracking[args.workflow_id].status = "complete"
    /\ ret = args.before

\* C20: a run that stops before its commit leaves none of its rows in the
\* database; in every committed database a workflow and variant have rows in
\* all of the raw results, index, normalised results, final results, model
\* parameters and reporter status tables or in no table at all, so the final
\* results alone tell whether the pair is uploaded
C20_all_or_nothing ==
    /\ \A k \in UploadKeys :
          \/ \A t \in SeqRange(UploadSteps) \ {"NE_failed_results"} : k \in ret.rows[t]
          \/ \A t \in SeqRange(UploadSteps) : k \notin ret.rows[t]
    /\ \A k \in UploadKeys :
          k \in ret.rows["NE_final_results"] <=>
              \E t \in SeqRange(UploadSteps) : k \in ret.rows[t]
    /\ (InRun /\ args.outcome \in {"running", "Exception", "RuntimeError"}) =>
          ret = args.before
    /\ op = "run.raised" => args.outcome \in {"Exception", "RuntimeError"}

\* a run has raised after its first four uploads, on a database with rows
C20_witness ==
    /\ op = "run.raised"
    /\ args.step > 4
    /\ ret.log # {}
    /\ <<args.workflow_id, args.variant>> \notin ret.rows["NE_raw_results"]

-----------------------------------------------------------------------------
(* The titration pipelines: properties of SpecTitration *)

\* C21: a titration run for a workflow whose titration results are already
\* in the database uploads nothing, leaves the titration tracking row as it
\* was, and returns normally
C21_titration_already_uploaded ==
    \A r \in TitrationRuns :
        (/\ op[r] \in {"run.returned", "run.raised"}
         /\ <<args[r].workflow_id, args[r].variant>> \in args[r].before.results) =>
            /\ op[r] = "run.returned"
            /\ args[r].outcome = "already uploaded"

\* the executions that ended for a pair already in the database, by
\* pipeline: each ended with the exception of its already_uploaded
C21_ends_with_exception ==
    \A r \in TitrationRuns :
        (/\ op[r] \in {"run.returned", "run.raised"}
         /\ <<args[r].workflow_id, args[r].variant>> \in args[r].before.results) =>
            /\ op[r] = "run.raised"
            /\ args[r].outcome = IF args[r].pipeline = "main.run_titration"
                                 THEN "AttributeError" ELSE "NotImplementedError"
            /\ ret = args[r].before

-----------------------------------------------------------------------------
(* utils.py well labels: properties of Spec *)

\* the labels of a 96-well plate, rows A-H and columns 01-12
Wells96 == {FormatWell(ascii_uppercase[r], c) : r \in 1..8, c \in 1..12}

\* C22: every 384-well label (rows A-P, columns 1-24) converts to a 96-well
\* label (rows A-H, columns 01-12); exactly four 384-wells convert to each
\* 96-well label and they carry the dilution numbers 1, 2, 3, 4 once each:
\* odd row and odd column 4, odd row and even column 2, even row and odd
\* column 3, even row and even column 1
C22_well_384_to_96 ==
    op = "well_384" =>
        LET row == LetterNumber(args.well[1])
            col == ParseInt(Tail(args.well))
            same == {w \in Wells384 : /\ Len(w) = 3
                                      /\ well_384_to_96(w) = ret.well_96}
        IN  /\ ret.well_96 \in Wells96
            /\ Cardinality(same) = 4
            /\ \A d \in 1..4 :
                Cardinality({w \in same :
                    get_dilution_from_384_well_label(w) = d}) = 1
            /\ ret.dilution =
                 CASE row % 2 = 1 /\ col % 2 = 1 -> 4
                   [] row % 2 = 1 /\ col % 2 = 0 -> 2
                   [] row % 2 = 0 /\ col % 2 = 1 -> 3
                   [] row % 2 = 0 /\ col % 2 = 0 -> 1

\* the last well of the plate, P24, converts to H12 with dilution 1
C22_witness ==
    /\ op = "well_384"
    /\ args.well = <<"P", "2", "4">>
    /\ ret = [well_96 |-> <<"H", "1", "2">>, dilution |-> 1]

\* an unpadded label, B1, converts to the padded A01 with dilution 3
C22_witness_unpadded ==
    /\ op = "well_384"
    /\ args.well = <<"B", "1">>
    /\ ret = [well_96 |-> <<"A", "0", "1">>, dilution |-> 3]

-----------------------------------------------------------------------------
(* calc_heuristics_curve: properties of Spec *)

\* C23: when hampel with window 5 flags at least one index of the fitted
\* curve, calc_heuristics_curve returns "failed to fit model" (-999),
\* whatever the minimum of the curve and its position
C23_outliers_fail ==
    (CallOf("calc_heuristics_curve") /\ ret.outliers # <<>>)
        => ret.value = Some(result_to_int("failed to fit model"))

\* the same for the curves the second rule leaves alone: those whose
\* minimum is not strictly between the thresholds
C23_outliers_fail_outside_band ==
    (/\ CallOf("calc_heuristics_curve")
     /\ ret.outliers # <<>>
     /\ ~(MinOf(args.y) > args.threshold /\ MinOf(args.y) < args.weak_threshold))
        => ret.value = Some(result_to_int("failed to fit model"))

\* a curve with an outlier that is not in the band
C23_witness_outside_band ==
    /\ CallOf("calc_heuristics_curve")
    /\ ret.outliers # <<>>
    /\ MinOf(args.y) <= args.threshold

\* C24 as stated: without outliers and with the minimum strictly between
\* the thresholds, "weak inhibition" when the index of the minimum is in
\* the low-concentration quarter of the grid, "failed to fit model"
\* otherwise; None when the minimum is not strictly between the thresholds
C24_weak_in_low_quarter ==
    (CallOf("calc_heuristics_curve") /\ ret.outliers = <<>>) =>
        IF MinOf(args.y) > args.threshold /\ MinOf(args.y) < args.weak_threshold
        THEN ret.value = IF 4 * ArgMin(args.y) < args.n
                         THEN Some(result_to_int("weak inhibition"))
                         ELSE Some(result_to_int("failed to fit model"))
        ELSE ret.value = None

\* C24 (amended): without outliers and with the minimum strictly between
\* the thresholds, "weak inhibition" when the index of the minimum is
\* greater than len(x) / 4, that is past the low-concentration quarter of
\* the grid, and "failed to fit model" otherwise; None when the minimum is
\* not strictly between the thresholds
C24_weak_past_low_quarter ==
    (CallOf("calc_heuristics_curve") /\ ret.outliers = <<>>) =>
        IF MinOf(args.y) > args.threshold /\ MinOf(args.y) < args.weak_threshold
        THEN ret.value = IF 4 * ArgMin(args.y) > args.n
                         THEN Some(result_to_int("weak inhibition"))
                         ELSE Some(result_to_int("failed to fit model"))
        ELSE ret.value = None

\* a smooth curve whose minimum, in the band, is past the first quarter
C24_witness ==
    /\ CallOf("calc_heuristics_curve")
    /\ ret.outliers = <<>>
    /\ MinOf(args.y) > args.threshold /\ MinOf(args.y) < args.weak_threshold
    /\ 4 * ArgMin(args.y) > args.n
    /\ ret.value = Some(result_to_int("weak inhibition"))

\* a smooth curve whose minimum, in the band, is in the first quarter
C24_witness_low_quarter ==
    /\ CallOf("calc_heuristics_curve")
    /\ ret.outliers = <<>>
    /\ MinOf(args.y) > args.threshold /\ MinOf(args.y) < args.weak_threshold
    /\ 4 * ArgMin(args.y) < args.n
    /\ ret.value = Some(result_to_int("failed to fit model"))

\* a smooth curve whose minimum is not in the band
C24_witness_none ==
    /\ CallOf("calc_heuristics_curve")
    /\ ret.outliers = <<>>
    /\ MinOf(args.y) >= args.weak_threshold
    /\ ret.value = None

-----------------------------------------------------------------------------
(* hampel: properties of Spec *)

\* the indices of the returned list
HampelReturned == {ret.indices[j] : j \in 1..Len(ret.indices)}

\* C25: hampel(x, k, t0) examines every index i with k <= i < n - k and no
\* other: such an i is returned if and only if its window of 2k + 1 values
\* is not all NaN and |x[i] - x0| > t0 * 1.4826 * median(|window - x0|),
\* x0 being the median of the window without its NaN
C25_hampel_every_interior_index ==
    CallOf("hampel") =>
        /\ \A i \in HampelReturned : args.k <= i /\ i < Len(args.x) - args.k
        /\ \A i \in args.k..(Len(args.x) - args.k - 1) :
            i \in HampelReturned <=> HampelFlags(args.x, i, args.k, args.t0)

\* the same from index k + 1 on, the range of the loop
C25_hampel_from_k_plus_1 ==
    CallOf("hampel") =>
        /\ \A i \in HampelReturned : args.k + 1 <= i /\ i < Len(args.x) - args.k
        /\ \A i \in (args.k + 1)..(Len(args.x) - args.k - 1) :
            i \in HampelReturned <=> HampelFlags(args.x, i, args.k, args.t0)

\* a call that returns an index and leaves one unflagged
C25_witness_from_k_plus_1 ==
    /\ CallOf("hampel")
    /\ Len(args.x) = MaxLen /\ args.k = 1
    /\ Cardinality(HampelReturned) = 1

-----------------------------------------------------------------------------
(* calc_heuristics_dilutions: missing levels and the last rule *)

\* the lookup "avg[a] <= threshold and avg[b] <= threshold" meets a missing
\* level: a is missing, or a is at or below threshold and b is missing
PairHitsMissing(group, a, b) ==
    \/ ~LevelPresent(group, a)
    \/ LevelAvgLe(group, a, threshold) /\ ~LevelPresent(group, b)

\* the check of the two most dilute levels and its fallback both meet a
\* missing level
BothPairsHitMissing(group) ==
    PairHitsMissing(group, 4, 3) /\ PairHitsMissing(group, 3, 2)

\* C26: when the complete-inhibition check on DILUTION_4 and DILUTION_3
\* meets a missing level and its fallback on DILUTION_3 and DILUTION_2 meets
\* one too, calc_heuristics_dilutions returns "failed to fit model" (-999);
\* and this happens only when two levels are missing from the series, never
\* when a single level is missing
C26_two_missing_levels ==
    (CallOf("calc_heuristics_dilutions") /\ BothPairsHitMissing(args.group)) =>
        /\ ret.value = Some(result_to_int("failed to fit model"))
        /\ Cardinality(PresentLevels(args.group)) <= 2

\* the second half alone: a "failed to fit model" returned after both
\* checks met a missing level comes with at least two missing levels
C26_never_single_missing_level ==
    (/\ CallOf("calc_heuristics_dilutions")
     /\ BothPairsHitMissing(args.group)
     /\ ret.value = Some(result_to_int("failed to fit model")))
        => Cardinality(PresentLevels(args.group)) <= 2

\* the first half up to the later rules: after both checks met a missing
\* level the function returns "failed to fit model" unless the weak rule or
\* the last rule assigns after it
C26_failed_unless_overridden ==
    (CallOf("calc_heuristics_dilutions") /\ BothPairsHitMissing(args.group)) =>
        ret.value \in {Some(result_to_int("failed to fit model")),
                       Some(result_to_int("weak inhibition")),
                       Some(result_to_int("no inhibition"))}

\* DILUTION_3 alone is missing and the function returns "failed to fit model"
C26_witness_single_missing_level ==
    /\ CallOf("calc_heuristics_dilutions")
    /\ PresentLevels(args.group) = {1, 2, 4}
    /\ ret.value = Some(result_to_int("failed to fit model"))

\* the value of "result" when the last rule is reached
BeforeLastRule(group) ==
    LET avg == GroupMeans(group)
    IN  RuleWeak(avg, threshold, weak_threshold,
                 RuleMostDilute(avg, threshold, RuleAllComplete(avg, threshold, None)))

\* the last rule fires and replaces a "weak inhibition" or a "complete
\* inhibition" that an earlier rule of the same call assigned
LastRuleReplacesClass(group) ==
    /\ AllGt(GroupMeans(group), weak_threshold)
    /\ BeforeLastRule(group) \in {Some("weak inhibition"), Some("complete inhibition")}

\* C27 as stated: among the series calc_heuristics_dilutions is called with
\* there is one for which the last rule replaces a "weak inhibition" or "complete
\* inhibition" assigned by an earlier rule of the call
C27_exists_replaced_class ==
    CallOf("calc_heuristics_dilutions") =>
        \E group \in SeriesSet(test_dilutions, PctVals, MaxReps) :
            LastRuleReplacesClass(group)

\* C27 (amended): with threshold < weak_threshold no series is such: when
\* the last rule of calc_heuristics_dilutions fires, the earlier rules have
\* assigned nothing or "failed to fit model", and the call returns
\* "no inhibition"
C27_last_rule_replaces_only_failed ==
    (CallOf("calc_heuristics_dilutions") /\ threshold < weak_threshold
        /\ AllGt(GroupMeans(args.group), weak_threshold)) =>
        /\ BeforeLastRule(args.group) \in {None, Some("failed to fit model")}
        /\ ~LastRuleReplacesClass(args.group)
        /\ ret.value = Some(result_to_int("no inhibition"))

\* the last rule replaces the "failed to fit model" of missing levels
C27_witness ==
    /\ CallOf("calc_heuristics_dilutions")
    /\ args.group # <<>>
    /\ AllGt(GroupMeans(args.group), weak_threshold)
    /\ BeforeLastRule(args.group) = Some("failed to fit model")
    /\ ret.value = Some(result_to_int("no inhibition"))

\* the last rule fires where no earlier rule assigned
C27_witness_none_before ==
    /\ CallOf("calc_heuristics_dilutions")
    /\ AllGt(GroupMeans(args.group), weak_threshold)
    /\ BeforeLastRule(args.group) = None
    /\ ret.value = Some(result_to_int("no inhibition"))

-----------------------------------------------------------------------------
(* calc_model_results and Sample: model_params and mean_squared_error *)

\* C28 as stated: in every ModelResults of calc_model_results
\* mean_squared_error is None if and only if model_params is None; so a
\* Sample with a high-MSE well failure reports model parameters
C28_mse_none_iff_params_none ==
    /\ CallOf("calc_model_results") =>
          (ret.value.mean_squared_error = None <=> ret.value.model_params = None)
    /\ (op = "Sample" /\ FailuresOfKind(ret.failures, "model MSE >") # {})
       => ret.model_params # None

\* C28 (amended): a ModelResults without mean_squared_error has no
\* model_params; it has a mean_squared_error and no model_params exactly when
\* the intersection finder reported an error; a Sample whose
\* mean_squared_error is above the limit of the high-MSE check reports model
\* parameters or has the result -999 of a fit whose intersection failed
C28_mse_none_implies_params_none ==
    /\ CallOf("calc_model_results") =>
          /\ ret.value.mean_squared_error = None => ret.value.model_params = None
          /\ (ret.value.model_params = None /\ ret.value.mean_squared_error # None)
             <=> (ret.locals.intersect_called /\ ret.locals.intersect.error)
    /\ (op = "Sample" /\ ret.mean_squared_error # None
          /\ ret.mean_squared_error[1] > mse_upper_limit)
       => \/ ret.model_params # None
          \/ ret.fit_method = "model fit" /\ ret.ic50 = Code(0 - 999)

\* a fit whose curve crosses the threshold nowhere: the MSE is kept and the
\* parameters are dropped
C28_witness ==
    /\ CallOf("calc_model_results")
    /\ ret.locals.intersect_called /\ ret.locals.intersect.error
    /\ ret.value.model_params = None
    /\ ret.value.mean_squared_error # None

\* a Sample whose calc_ic50 met the high-MSE check without model parameters
C28_witness_sample ==
    /\ op = "Sample"
    /\ ret.mean_squared_error # None /\ ret.mean_squared_error[1] > mse_upper_limit
    /\ ret.model_params = None

\* an optimizer failure: neither
C28_witness_neither ==
    /\ CallOf("calc_model_results")
    /\ ret.locals.fit_raised
    /\ ret.value.model_params = None
    /\ ret.value.mean_squared_error = None

-----------------------------------------------------------------------------
(* Experiment.get_failures_as_dataframe: properties of Spec *)

\* the rows of the frame made from one failure object
RowsFrom(kind, name, f) == {row \in ret.df : row.origin = <<kind, name, f.oid>>}

\* every failure of the collection has exactly one row
OneRowEach(kind, name, failures) ==
    \A f \in failures : Cardinality(RowsFrom(kind, name, f)) = 1

\* the number of failures recorded by the plates and samples
RecordedFailures ==
    Cardinality(
        UNION {{<<"plate", args.plates[n].barcode, f.oid>> :
                    f \in args.plates[n].plate_failures} : n \in DOMAIN args.plates}
        \cup
        UNION {{<<"well", args.plates[n].barcode, f.oid>> :
                    f \in args.plates[n].well_failures} : n \in DOMAIN args.plates}
        \cup
        UNION {{<<"sample", args.samples[n].sample_name, f.oid>> :
                    f \in args.samples[n].failures} : n \in DOMAIN args.samples})

\* C29: every failure recorded by a Plate or a Sample of an Experiment is
\* exactly one row of the frame get_failures_as_dataframe returns, so a
\* plate with several plate failures has one row for each; and plate_failed
\* is True exactly when plate_failures is not empty
C29_one_row_per_failure ==
    CallOf("get_failures_as_dataframe") =>
        /\ ret.raised = ""
        /\ \A n \in DOMAIN args.plates :
            /\ OneRowEach("plate", args.plates[n].barcode, args.plates[n].plate_failures)
            /\ OneRowEach("well", args.plates[n].barcode, args.plates[n].well_failures)
            /\ args.plates[n].plate_failed <=> args.plates[n].plate_failures # {}
        /\ \A s \in DOMAIN args.samples :
            OneRowEach("sample", args.samples[s].sample_name, args.samples[s].failures)
        /\ Cardinality(ret.df) = RecordedFailures

-----------------------------------------------------------------------------
(* Concurrent executions of run: properties of SpecConcurrent *)

\* the variants of the workflow with committed final results
CommittedVariants(w) == {k[2] : k \in {q \in ret.rows["NE_final_results"] : q[1] = w}}

\* once every expected variant of the workflow is committed its tracking
\* row is complete
C30_complete_when_all_committed ==
    \A w \in Workflows :
        Cardinality(CommittedVariants(w)) >= ret.tracking[w].no_of_variants
            => ret.tracking[w].status = "complete"

\* no pair of workflow and variant is committed twice
C30_no_pair_committed_twice == \A e \in ret.log : e.nth = 1

\* C30: in every interleaving of concurrent executions of run, each in its
\* own session, once all the expected variants of the workflow are committed
\* the tracking row has the status "complete", and no pair (workflow_id,
\* variant) has its results committed twice
C30_concurrent_runs ==
    /\ C30_complete_when_all_committed
    /\ C30_no_pair_committed_twice

\* both executions committed a different variant and none marked the workflow
C30_witness_unmarked ==
    /\ \A r \in ConcurrentRuns : args[r].outcome = "committed"
    /\ Cardinality(CommittedVariants(ConcurrentWorkflow)) = MaxVariants
    /\ ret.tracking[ConcurrentWorkflow].status = "running"

\* both executions committed the same variant
C30_witness_twice ==
    /\ \A r \in ConcurrentRuns : args[r].outcome = "committed"
    /\ \E e \in ret.log : e.nth = 2

=============================================================================
